---- MODULE Spec2Model ----
(***************************************************************************)
(* The daemon command/response subsystem of cipher-chat-mini:              *)
(*   DaemonClient  (src/src/utils/simple-time-parse.js, lines 96-400)      *)
(*   MatrixDaemon  (src/unnamed/part_005, lines 79-253)                    *)
(* One client process holding one DaemonClient, and the daemon processes   *)
(* it spawns.  The node-ipc channel is the platform primitive: connectTo   *)
(* creates a client object ipc.of.matrix_daemon whose socket reports       *)
(* 'connect' or 'error' once; ipc.disconnect destroys the socket, removes  *)
(* every listener of the client object and deletes ipc.of.matrix_daemon.   *)
(* Timers (800 ms backoff, 3 s probe, 10 s command) fire at any time       *)
(* relative to the other processes.                                        *)
(***************************************************************************)
EXTENDS Naturals, Sequences, FiniteSets

\* ---------------------------------------------------------------- bounds
MaxBinds  == 3   \* ipc.connectTo calls that open a channel (connect and probe)
MaxCalls  == 3   \* connect() / sendCommand() calls made by the application
MaxCmds   == 2   \* sendCommand() calls among them
MaxEvents == 2   \* room events the backend delivers to one stream subscription
MaxWire   == 2   \* responses in flight on the client's socket
MaxExecs  == 3   \* execute() calls made on the MatrixClientProxy
MaxPages  == 2   \* pages the server returns to one getMessages() call
MaxChunk  == 2   \* events in one page
MaxTs     == 3   \* timestamps 1..MaxTs
MaxLimit  == 2   \* options.limit of getMessages(): 0..MaxLimit
MaxArrivals == 3  \* 'response' events the socket reads for one requestId
MaxClients == 2   \* client connections one daemon has accepted
MaxReqs   == 2    \* requests the daemon receives from them
MaxOut    == 2    \* envelopes the daemon emits on one connection

Chans == 1..MaxBinds
Calls == 1..MaxCalls

\* A process is spawned only after a failed attempt; one may run from the start.
Pids == 1..(MaxBinds + 1)

Execs == 1..MaxExecs

\* An action string that names no method of MatrixCommands.
UnknownAction == "noSuchAction"

\* The client takes every action but streamMessages for an atomic one.
AtomicActions == {"listRooms", UnknownAction}
StreamAction  == "streamMessages"
Actions       == AtomicActions \cup {StreamAction}

VARIABLES
    connected,   \* this.connected
    connecting,  \* this.connecting: 0 (null) or the promise of the attempt
    of,          \* this.ipc.of.matrix_daemon: 0 (undefined) or a channel
    nBinds,      \* channels opened so far by ipc.connectTo
    chan,        \* chan[ch]: "unused" | "connecting" | "open" | "closed"
    connL,       \* attempts whose onConnect/onError are registered
    respL,       \* calls whose response handler is registered on the channel
    prom,        \* connect promise of attempt p: "none" | "pending" | "backoff"
                 \*                               | "resolved" | "rejected"
    follow,      \* follow[p] = q: p settles as q does (connect().then(resolve))
    nCalls,      \* calls made so far; the requestId of a command is its number
    call,        \* the caller's side of every call
    timer,       \* the 10 s timer of a command
    probe,       \* isDaemonRunning(): "idle" | "running" | "true" | "false"
                 \*                    | "rejected"
    daemon,      \* the well-known name: "down" | "bound"
    starting,    \* spawned daemon processes that have not bound or exited yet
    spawns,      \* startDaemonProcess() calls so far
    inbox,       \* commands the daemon is executing
    subs,        \* stream subscriptions registered on the daemon's backend
    events,      \* events[r]: stream events emitted so far for request r
    wire,        \* responses in flight to the client, oldest first
    served,      \* the daemon's side of every command: how the backend
                 \* operation ended and the responses emitted with its requestId
    disc,        \* what the latest disconnect() call did
    stopCall,        \* the stopDaemon() call and its handshake
    dying,       \* the daemon process that closed its server and waits to exit
    seen,        \* what the latest isDaemonRunning() probe met
    failure,     \* failure[ch]: the code of the error that ended attempt ch
    procs,       \* daemon processes that have bound the name so far; the
                 \* process holding the name is the latest of them
    servers,     \* the processes whose server is started and not stopped
    owner,       \* owner[ch]: the process that accepted channel ch, 0 if none
    inits,       \* starting processes that await _createClient()
    ready,       \* starting processes that have their MatrixCommands and have
                 \* not yet called this.ipc.server.start()
    executor,    \* executor[pid]: this.commands of the process when it bound
                 \* the name: "none" (no such process) | "set" | "unset"
    initFailed,  \* starting processes whose _createClient() has thrown
    proxy,       \* the MatrixClientProxy and the configuration it reads
    exec,        \* the execute() calls made on the proxy
    cli,         \* the `room list` command of the CLI
    gm,          \* the getMessages() call of MatrixCommands
    hub          \* one daemon as its clients see it: the connections it has
                 \* accepted and what it has emitted on each of them

vars == <<connected, connecting, of, nBinds, chan, connL, respL, prom, follow,
          nCalls, call, timer, probe, daemon, starting, spawns, inbox, subs,
          events, wire, served, disc, stopCall, dying, seen, failure,
          procs, servers, owner, inits, ready, executor, initFailed,
          proxy, exec, cli, gm, hub>>

\* The handle and the daemon it talks to.
handleVars == <<connected, connecting, of, nBinds, chan, connL, respL, prom,
                follow, nCalls, call, timer, probe, daemon, starting, spawns,
                inbox, subs, events, wire, served, disc, stopCall, dying, seen,
                failure>>

\* The daemon processes; the application around the handle.
procVars == <<procs, servers, owner, inits, ready, executor, initFailed>>
appVars  == <<proxy, exec, cli, gm, hub>>

NoErr == [kind |-> "none", action |-> "none"]

\* A call that has not been made.  kind: "connect" or the command's action;
\* await: the connect promise it waits for; conn: how its connect() ended;
\* st, val, err: the promise sendCommand returned; settles: how often that
\* promise went from pending to settled; cb: invocations of
\* params.callback; from: the requestIds of the responses its handler acted
\* on; recvOk, recvFail: the success and failure responses carrying this
\* call's requestId that reached the client.
\* during, inBackoff, binds, noDaemon, sp0, sp1 record the circumstances of
\* the call: this.connecting when it was made, the attempt that was waiting
\* for its retry, the channels the call itself opened, whether the name was
\* unbound, and the number of spawns when it was made and when it settled.
\* cerr: the code of the error its connect() rejected with; msg: the message
\* of the Error a failure response rejected it with.
NoCall == [kind |-> "none", await |-> 0, conn |-> "none", st |-> "none",
           val |-> "none", err |-> NoErr, settles |-> 0, cb |-> 0, from |-> {},
           recvOk |-> 0, recvFail |-> 0, during |-> 0, inBackoff |-> 0, binds |-> 0,
           noDaemon |-> FALSE, sp0 |-> 0, sp1 |-> 0, cerr |-> "none",
           msg |-> "none"]

\* A command the daemon has not handled.  ran: "no", or how the backend
\* operation ended ("ok" | "threw"); ret: the value it returned or the message
\* of what it threw; okOut, failOut: the success and failure responses the
\* daemon emitted with this requestId; after: how many handlers had ended
\* with an exception when this one ended.
NoServed == [ran |-> "no", ret |-> "none", okOut |-> 0, failOut |-> 0,
             after |-> 0]

\* No stopDaemon() call.  st: the promise it returned ("none" | "waiting" |
\* "closing" | "resolved" | "rejected"); err: what it rejected with; timer: its
\* 10 s timer; on: the channel onStopped is registered on; req, conf: the
\* channel carrying 'stop_daemon' to the daemon, 'stopped' to the client;
\* got: onStopped has run; was: this.connected when the call was made; sent:
\* the call emitted 'stop_daemon'; sp: the spawns so far when onStopped ran.
NoStop == [st |-> "none", err |-> "none", timer |-> "none", on |-> 0,
           req |-> 0, conf |-> 0, got |-> FALSE, was |-> FALSE, sent |-> FALSE,
           sp |-> 0]

\* on: a daemon process has closed its server and not yet exited; chans: the
\* channels that were connected to it; log: what the process that handled
\* 'stop_daemon' has done since, in order.
NoDying == [on |-> FALSE, chans |-> {}, log |-> <<>>]

\* ev: the event that ended the latest probe; bound: whether the name was
\* bound then; afterStop: the probe began after stopDaemon() had resolved,
\* with no daemon spawned since.
NoSeen == [ev |-> "none", bound |-> FALSE, afterStop |-> FALSE]

\* A daemon with no client.  open: the connections it holds; reqs: the
\* commands it is executing; subs: the stream subscriptions on its backend;
\* out[cl]: the envelopes emitted on connection cl, each with the connection
\* its request came on; lost: the envelopes emitted on a connection that had
\* closed; n: requests received; stopped: stop() was called.
Clients == 1..MaxClients

NoHub == [open |-> {}, reqs |-> {}, subs |-> {}, out |-> [cl \in Clients |-> <<>>],
          lost |-> <<>>, n |-> 0, stopped |-> FALSE]

\* The state after `new DaemonClient()`; the daemon is running or not.
InitHandle ==
    /\ connected = FALSE
    /\ connecting = 0
    /\ of = 0
    /\ nBinds = 0
    /\ chan = [ch \in Chans |-> "unused"]
    /\ connL = {}
    /\ respL = {}
    /\ prom = [p \in Chans |-> "none"]
    /\ follow = [p \in Chans |-> 0]
    /\ nCalls = 0
    /\ call = [c \in Calls |-> NoCall]
    /\ timer = [c \in Calls |-> "none"]
    /\ probe = "idle"
    /\ daemon \in {"down", "bound"}
    /\ starting = 0
    /\ spawns = 0
    /\ inbox = {}
    /\ subs = {}
    /\ events = [c \in Calls |-> 0]
    /\ wire = <<>>
    /\ served = [c \in Calls |-> NoServed]
    /\ disc = [was |-> FALSE, did |-> "none"]
    /\ stopCall = NoStop
    /\ dying = NoDying
    /\ seen = NoSeen
    /\ failure = [ch \in Chans |-> "none"]
    /\ procs = IF daemon = "bound" THEN 1 ELSE 0
    /\ servers = IF daemon = "bound" THEN {1} ELSE {}
    /\ owner = [ch \in Chans |-> 0]
    /\ inits = 0
    /\ ready = 0
    /\ executor = [pid \in Pids |-> IF pid = 1 /\ daemon = "bound" THEN "set" ELSE "none"]
    /\ initFailed = 0
    /\ hub = NoHub

\* new MatrixClientProxy() with config.useDaemon = u: the constructor caches
\* the mode in _mode.  made: the Matrix clients _createDirectClient() has
\* constructed; assigned: the last value given to the `mode` setter.
NewProxy(u) ==
    [useDaemon |-> u, cached |-> IF u THEN "daemon" ELSE "direct",
     directCommands |-> 0, made |-> 0, assigned |-> "none"]

\* An execute() call that has not been made.  st: "none" | "creating" (it
\* awaits _createDirectClient()) | "done" | "failed"; route: what
\* getCommands() returned, "daemon" (the daemonClient) or "direct"; pair: the
\* client and MatrixCommands pair a direct call uses; mine: the client the
\* call itself constructed; pref, assigned: config.useDaemon and the last
\* value given to the `mode` setter when the call was made.
NoExec == [st |-> "none", route |-> "none", pair |-> 0, mine |-> 0,
           pref |-> FALSE, assigned |-> "none"]

\* The `room list` command has not run.
NoCli == [st |-> "none", out |-> [ok |-> TRUE, val |-> "none"],
          ends |-> "none", shown |-> "none", exit |-> 0]

\* No getMessages() call.  st: "none" | "running" | "returned" | "threw";
\* messages, hasMore: the locals of the call; pages: the requests it has made;
\* got: the array it returned.
NoGm == [st |-> "none", limit |-> 0, startTime |-> 0, endTime |-> 0,
         direction |-> "b", messages |-> <<>>, hasMore |-> TRUE, pages |-> 0,
         got |-> <<>>]

\* The application around the handle, with config.useDaemon = u.
InitApp(u) ==
    /\ proxy = NewProxy(u)
    /\ exec = [e \in Execs |-> NoExec]
    /\ cli = NoCli
    /\ gm = NoGm

\* The daemon subsystem is what the application uses with useDaemon set.
Init == InitHandle /\ InitApp(TRUE)

\* ------------------------------------------------------- connect promises

\* connect().then(resolve).catch(reject): p settles as the promise it follows.
RECURSIVE Root(_)
Root(p) == IF prom[p] = "pending" /\ follow[p] # 0 THEN Root(follow[p]) ELSE p

\* The promises that settle when q does.
Settling(q) == {q} \cup {p \in Chans : prom[p] = "pending" /\ Root(p) = q}

\* The calls whose `await this.connect()` ends when the promises P settle.
Waiters(P) == {c \in Calls : call[c].conn = "pending" /\ call[c].await \in P}

Commands(S) == {c \in S : call[c].kind \in Actions}

\* The attempt whose 800 ms backoff is running, 0 if none.
Backoff == IF \E p \in Chans : prom[p] = "backoff"
           THEN CHOOSE p \in Chans : prom[p] = "backoff" ELSE 0

\* ------------------------------------------------------------ sendCommand

TypeError == [kind |-> "TypeError", action |-> "none"]

\* A timeout error with a fixed message.
TimeoutError_noaction(action) == [kind |-> "timeout", action |-> "none"]

\* new Error(`Timeout waiting for response to command: ${action}`)
TimeoutError(action) == [kind |-> "timeout", action |-> action]

\* The promise executor of sendCommand for call c, with ipc.of.matrix_daemon
\* = ofv: reading .on of undefined throws and rejects the promise.
Executor(rec, ofv) ==
    IF ofv = 0
    THEN [rec EXCEPT !.st = "rejected", !.err = TypeError, !.settles = 1]
    ELSE [rec EXCEPT !.st = "pending"]

\* emit('command', {requestId, action, params}): written to the socket; it
\* reaches the daemon when the socket is connected.
Emitted(S, ofv, isOpen) ==
    IF ofv # 0 /\ isOpen
    THEN {[rid |-> c, ch |-> ofv, action |-> call[c].kind] : c \in S}
    ELSE {}

\* The calls after the connect promises P settled with `how` ("resolved", or
\* the code of the error they rejected with): every waiting
\* call learns the outcome; a waiting sendCommand runs its executor, or
\* rejects with the raw connect error.
CallsAfter(P, how, ofv) ==
    [c \in Calls |->
        IF c \notin Waiters(P) THEN call[c]
        ELSE LET r == [call[c] EXCEPT !.conn = IF how = "resolved" THEN "ok" ELSE "err",
                                      !.cerr = IF how = "resolved" THEN "none" ELSE how,
                                      !.sp1 = spawns]
             IN  IF call[c].kind \notin Actions THEN r
                 ELSE IF how = "resolved" THEN Executor(r, ofv)
                 ELSE [r EXCEPT !.st = "rejected", !.settles = 1,
                                !.err = [kind |-> "connect", action |-> "none"]]]

Registered(S, ofv) == IF ofv = 0 THEN {} ELSE S

\* A 10 s timer for every command, streamMessages included.
TimersAfter_all(S, ofv) ==
    [c \in Calls |-> IF c \in S /\ ofv # 0 THEN "armed" ELSE timer[c]]

\* The 10 s timer: armed for every command but streamMessages.
TimersAfter(S, ofv) ==
    [c \in Calls |-> IF c \in S /\ ofv # 0 /\ call[c].kind \in AtomicActions
                     THEN "armed" ELSE timer[c]]

\* Everything a settlement of the connect promises P does to the callers;
\* isOpen: the socket of ipc.of.matrix_daemon is connected.
Settle(P, how, ofv, isOpen) ==
    LET S == IF how = "resolved" THEN Commands(Waiters(P)) ELSE {} IN
    /\ prom' = [p \in Chans |->
                  IF p \notin P THEN prom[p]
                  ELSE IF how = "resolved" THEN "resolved" ELSE "rejected"]
    /\ call' = CallsAfter(P, how, ofv)
    /\ respL' = respL \cup Registered(S, ofv)
    /\ inbox' = inbox \cup Emitted(S, ofv, isOpen)
    /\ timer' = TimersAfter(S, ofv)

\* ---------------------------------------------------------------- connect

\* connect() without the shared future: every caller starts an attempt.
SharesAttempt_never == FALSE

\* `if (this.connecting) return this.connecting;`
SharesAttempt == connecting # 0

\* connect() goes on to `this.connecting = new Promise(...)`.
Fresh == ~connected /\ ~SharesAttempt

\* ipc.connectTo('matrix_daemon', cb) with no live client object: a new
\* client object and socket; cb registers onConnect and onError on it.
connectTo ==
    /\ nBinds < MaxBinds
    /\ nBinds' = nBinds + 1
    /\ of' = nBinds + 1
    /\ chan' = [chan EXCEPT ![nBinds + 1] = "connecting"]
    /\ connL' = connL \cup {nBinds + 1}
    /\ connecting' = nBinds + 1

\* The record of a call made now.
NewCall(k) ==
    [NoCall EXCEPT !.kind = k,
                   !.during = IF connected THEN 0 ELSE connecting,
                   !.inBackoff = Backoff,
                   !.noDaemon = (daemon = "down" /\ starting = 0),
                   !.sp0 = spawns, !.sp1 = spawns]

\* A call of connect() (k = "connect") or of sendCommand(k, params), up to
\* the first point where it waits.  A fresh attempt is not started while an
\* isDaemonRunning() probe occupies ipc.of.matrix_daemon.
Call(k) ==
    /\ nCalls < MaxCalls
    /\ nCalls' = nCalls + 1
    /\ \/ /\ connected
          /\ LET r == [NewCall(k) EXCEPT !.conn = "ok"]
                 S == IF k \in Actions THEN {nCalls + 1} ELSE {}
             IN  /\ call' = [call EXCEPT ![nCalls + 1] =
                                 IF k \in Actions THEN Executor(r, of) ELSE r]
                 /\ respL' = respL \cup Registered(S, of)
                 /\ inbox' = inbox \cup
                        (IF of # 0 /\ chan[of] = "open"
                         THEN {[rid |-> nCalls + 1, ch |-> of, action |-> k] : c \in S}
                         ELSE {})
                 /\ timer' = [timer EXCEPT ![nCalls + 1] =
                                 IF of # 0 /\ k \in AtomicActions THEN "armed" ELSE "none"]
          /\ UNCHANGED <<connecting, of, nBinds, chan, connL, prom>>
       \/ /\ ~connected /\ SharesAttempt
          /\ call' = [call EXCEPT ![nCalls + 1] =
                          [NewCall(k) EXCEPT !.conn = "pending", !.await = connecting]]
          /\ UNCHANGED <<connecting, of, nBinds, chan, connL, prom, respL, inbox, timer>>
       \/ /\ Fresh /\ probe # "running"
          /\ connectTo
          /\ prom' = [prom EXCEPT ![nBinds + 1] = "pending"]
          /\ call' = [call EXCEPT ![nCalls + 1] =
                          [NewCall(k) EXCEPT !.conn = "pending", !.await = nBinds + 1,
                                             !.binds = 1]]
          /\ UNCHANGED <<respL, inbox, timer>>
    /\ UNCHANGED <<connected, follow, probe, daemon, starting, spawns, subs, events, wire, served, disc, stopCall, dying, seen, failure, procVars, appVars>>

connect == Call("connect")

sendCommand ==
    /\ Cardinality({c \in Calls : call[c].kind \in Actions}) < MaxCmds
    /\ \E a \in Actions : Call(a)

\* The socket of attempt ch connects: onConnect.
onConnect(ch) ==
    /\ chan[ch] = "connecting" /\ ch \in connL
    /\ daemon = "bound"
    /\ chan' = [chan EXCEPT ![ch] = "open"]
    /\ connected' = TRUE
    /\ connecting' = 0
    /\ connL' = connL \ {ch}
    /\ Settle(Settling(ch), "resolved", of, of # 0 /\ chan'[of] = "open")
    /\ owner' = [owner EXCEPT ![ch] = procs]
    /\ UNCHANGED <<of, nBinds, follow, nCalls, probe, daemon, starting, spawns,
                   subs, events, wire, served, disc, stopCall, dying, seen, failure,
                   procs, servers, inits, ready, executor, initFailed, appVars>>

\* startDaemonProcess(): a detached process that nobody waits for.
startDaemonProcess ==
    /\ spawns' = spawns + 1
    /\ starting' = starting + 1

\* The error codes of a socket that fails to connect: ENOENT when there is
\* no socket file, others for what else the transport reports.
OtherCodes == {"ECONNREFUSED", "EACCES"}

ErrorCodes == {"ENOENT"} \cup OtherCodes

\* An onError that spawns and retries whatever the error.
Retries_always(code) == TRUE

\* `if (err.code === 'ENOENT')`: spawn the daemon and retry; reject otherwise.
Retries(code) == code = "ENOENT"

\* The socket of attempt ch fails: onError.  ENOENT is what a missing socket
\* file gives; any other error can come from the transport at any time.
onError(ch, code) ==
    /\ chan[ch] = "connecting" /\ ch \in connL
    /\ code = "ENOENT" => daemon = "down"
    /\ chan' = [chan EXCEPT ![ch] = "closed"]
    /\ connL' = connL \ {ch}
    /\ connecting' = 0
    /\ failure' = [failure EXCEPT ![ch] = code]
    /\ \/ /\ Retries(code)
          /\ startDaemonProcess
          /\ prom' = [prom EXCEPT ![ch] = "backoff"]
          /\ UNCHANGED <<call, respL, inbox, timer>>
       \/ /\ ~Retries(code)
          /\ Settle(Settling(ch), code, of, FALSE)
          /\ UNCHANGED <<starting, spawns>>
    /\ UNCHANGED <<connected, of, nBinds, follow, nCalls, probe, daemon, subs,
                   events, wire, served, disc, stopCall, dying, seen, procVars,
                   appVars>>

\* The 800 ms timer of attempt p: this.connect().then(resolve).catch(reject)
retry(p) ==
    /\ prom[p] = "backoff"
    /\ \/ /\ connected
          /\ Settle(Settling(p), "resolved", of, of # 0 /\ chan[of] = "open")
          /\ UNCHANGED <<connecting, of, nBinds, chan, connL, follow>>
       \/ /\ ~connected /\ SharesAttempt
          /\ prom' = [prom EXCEPT ![p] = "pending"]
          /\ follow' = [follow EXCEPT ![p] = connecting]
          /\ UNCHANGED <<connecting, of, nBinds, chan, connL, call, respL, inbox, timer>>
       \/ /\ Fresh /\ probe # "running"
          /\ connectTo
          /\ prom' = [prom EXCEPT ![p] = "pending", ![nBinds + 1] = "pending"]
          /\ follow' = [follow EXCEPT ![p] = nBinds + 1]
          /\ UNCHANGED <<call, respL, inbox, timer>>
    /\ UNCHANGED <<connected, nCalls, probe, daemon, starting, spawns, subs,
                   events, wire, served, disc, stopCall, dying, seen, failure, procVars, appVars>>

\* ----------------------------------------------------------------- daemon

\* The spawned processes that have not begun start(): the runner first
\* awaits an isDaemonRunning() probe of its own.
Unstarted == starting - inits - ready

\* startDaemon() in a spawned process: its probe resolves false, it constructs
\* a MatrixDaemon and calls start(), which awaits _createClient().
daemonStarts ==
    /\ Unstarted > 0 /\ daemon = "down"
    /\ inits' = inits + 1
    /\ UNCHANGED <<connected, connecting, of, nBinds, chan, connL, respL, prom,
                   follow, nCalls, call, timer, probe, daemon, starting, spawns,
                   inbox, subs, events, wire, served, disc, stopCall, dying, seen,
                   failure, procs, servers, owner, ready, executor, initFailed,
                   appVars>>

\* startDaemon() in a spawned process ends without a daemon: its probe
\* resolves true ('Daemon is already running') or rejects.
startAborts ==
    /\ Unstarted > 0
    /\ starting' = starting - 1
    /\ UNCHANGED <<connected, connecting, of, nBinds, chan, connL, respL, prom,
                   follow, nCalls, call, timer, probe, daemon, spawns, inbox,
                   subs, events, wire, served, disc, stopCall, dying, seen, failure,
                   procVars, appVars>>

\* _createClient() resolves: this.commands = new MatrixCommands(client).
backendReady ==
    /\ inits > 0
    /\ inits' = inits - 1
    /\ ready' = ready + 1
    /\ UNCHANGED <<connected, connecting, of, nBinds, chan, connL, respL, prom,
                   follow, nCalls, call, timer, probe, daemon, starting, spawns,
                   inbox, subs, events, wire, served, disc, stopCall, dying, seen,
                   failure, procs, servers, owner, executor, initFailed, appVars>>

\* _createClient() throws 'Client initialization failed': start() rejects
\* before setupIPC() is reached.
backendFails ==
    /\ inits > 0
    /\ inits' = inits - 1
    /\ starting' = starting - 1
    /\ initFailed' = initFailed + 1
    /\ UNCHANGED <<connected, connecting, of, nBinds, chan, connL, respL, prom,
                   follow, nCalls, call, timer, probe, daemon, spawns, inbox,
                   subs, events, wire, served, disc, stopCall, dying, seen, failure,
                   procs, servers, owner, ready, executor, appVars>>

\* A start() that calls setupIPC() before it has its MatrixCommands.
Bindable_early == {"init", "ready"}

\* The starting processes that can reach this.ipc.server.start(): start()
\* calls setupIPC() after `await this._createClient()` and after the
\* construction of MatrixCommands.
Bindable == {"ready"}

\* This process has left the phase it was in.
Leaves(phase) ==
    /\ phase \in Bindable
    /\ IF phase = "ready" THEN (ready > 0 /\ ready' = ready - 1 /\ inits' = inits)
        ELSE (inits > 0 /\ inits' = inits - 1 /\ ready' = ready)
    /\ starting' = starting - 1

\* this.ipc.server.start() of a starting process succeeds: the process holds
\* the name from now on and serves it.
Listens(phase) ==
    /\ Leaves(phase)
    /\ daemon' = "bound"
    /\ procs' = procs + 1
    /\ servers' = servers \cup {procs + 1}
    /\ executor' = [executor EXCEPT ![procs + 1] = IF phase = "ready" THEN "set" ELSE "unset"]

\* A process finds the name free: start() binds it.
daemonBinds ==
    /\ daemon = "down"
    /\ \E phase \in {"init", "ready"} : Listens(phase)
    /\ UNCHANGED <<connected, connecting, of, nBinds, chan, connL, respL, prom,
                   follow, nCalls, call, timer, probe, spawns, inbox, subs,
                   events, wire, served, disc, stopCall, dying, seen, failure,
                   owner, initFailed, appVars>>

\* A process finds the name bound and its listen fails with EADDRINUSE: the
\* 'error' listener exits the process.
daemonExits ==
    /\ daemon = "bound"
    /\ \E phase \in {"init", "ready"} : Leaves(phase)
    /\ UNCHANGED <<connected, connecting, of, nBinds, chan, connL, respL, prom,
                   follow, nCalls, call, timer, probe, daemon, spawns, inbox,
                   subs, events, wire, served, disc, stopCall, dying, seen, failure,
                   procs, servers, owner, executor, initFailed, appVars>>

\* A process finds the name bound and its listen succeeds: setupIPC leaves
\* ipc.config.unlink at its default, with which the server removes the socket
\* file it finds before it listens.  The name now leads to the new process;
\* the process that held it keeps the connections it has.
daemonTakesOver ==
    /\ daemon = "bound"
    /\ \E phase \in {"init", "ready"} : Listens(phase)
    /\ UNCHANGED <<connected, connecting, of, nBinds, chan, connL, respL, prom,
                   follow, nCalls, call, timer, probe, spawns, inbox, subs,
                   events, wire, served, disc, stopCall, dying, seen, failure,
                   owner, initFailed, appVars>>

\* What this.commands[action](params) can do.  listRooms returns the rooms,
\* with a Date in lastEvent for a room that has a message, or throws;
\* streamMessages returns its cleanup function; for an action that names no
\* method, calling undefined throws a TypeError.  val: the value returned or
\* the message of what was thrown.
Outcomes(action) ==
    IF action = "listRooms"
    THEN {[ok |-> TRUE, val |-> "rooms"], [ok |-> TRUE, val |-> "roomsWithDate"],
          [ok |-> FALSE, val |-> "Unknown membership filter"]}
    ELSE IF action = StreamAction
    THEN {[ok |-> TRUE, val |-> "cleanup"]}
    ELSE {[ok |-> FALSE, val |-> "is not a function"]}

\* What the channel makes of a value: the sender writes JSON.stringify(v),
\* the receiver reads JSON.parse of it.  A Date arrives as its ISO string.
Json(v) == IF v = "roomsWithDate" THEN "roomsWithIsoString" ELSE v

\* this.ipc.server.emit(socket, 'response', r): lost when the client has
\* destroyed that socket.
Emit(r) ==
    IF chan[r.ch] = "open" THEN Append(wire, [r EXCEPT !.val = Json(@)]) ELSE wire

EmitAll(rs) == IF rs = <<>> THEN wire ELSE Emit(rs[1])

\* {requestId: data.requestId, success, data | error}
Response(cmd, out) ==
    [rid |-> cmd.rid, ok |-> out.ok, val |-> out.val, ch |-> cmd.ch]

\* A handler that answers nothing for an action it does not know.
Replies_knownOnly(cmd, out) ==
    IF cmd.action \in {StreamAction, UnknownAction} THEN <<>>
    ELSE <<Response(cmd, out)>>

\* A handler that answers the streamMessages call itself as well.
Replies_terminal(cmd, out) == <<Response(cmd, out)>>

\* The responses the 'command' handler emits once the backend call has ended:
\* none after a streamMessages call that returned (`return;`), one otherwise.
Replies(cmd, out) ==
    IF cmd.action = StreamAction /\ out.ok THEN <<>> ELSE <<Response(cmd, out)>>

\* An exception that escapes the handler ends the process: the commands it
\* was executing are never answered.
InboxAfter_crash(cmd, out) == IF out.ok THEN inbox \ {cmd} ELSE {}

\* try { ... } catch (error) { ... }: the handler of cmd ends, the handlers
\* of the other commands go on.
InboxAfter(cmd, out) == inbox \ {cmd}

Count(rs, r, ok) ==
    Cardinality({i \in 1..Len(rs) : rs[i].rid = r /\ rs[i].ok = ok})

\* The daemon's record after the handler of cmd emitted rs.
Served(cmd, out, rs) ==
    [c \in Calls |->
        LET s == IF c # cmd.rid THEN served[c]
                 ELSE [served[c] EXCEPT !.ran = IF out.ok THEN "ok" ELSE "threw",
                                        !.ret = out.val,
                                        !.after = Cardinality({d \in Calls :
                                                      served[d].ran = "threw"})]
        IN  [s EXCEPT !.okOut = @ + Count(rs, c, TRUE),
                      !.failOut = @ + Count(rs, c, FALSE)]]

\* The 'command' handler for an atomic action: the backend operation returns
\* or throws; the response carries the requestId of the command.
respond(cmd, out) ==
    /\ cmd \in inbox /\ cmd.action # StreamAction
    /\ out \in Outcomes(cmd.action)
    /\ Len(wire) < MaxWire
    /\ inbox' = InboxAfter(cmd, out)
    /\ wire' = EmitAll(Replies(cmd, out))
    /\ served' = Served(cmd, out, Replies(cmd, out))
    /\ UNCHANGED <<connected, connecting, of, nBinds, chan, connL, respL, prom,
                   follow, nCalls, call, timer, probe, daemon, starting, spawns,
                   subs, events, disc, stopCall, dying, seen, failure, procVars, appVars>>

\* The 'command' handler for streamMessages: the backend registers the
\* room-event listener and returns.
subscribe(cmd) ==
    /\ cmd \in inbox /\ cmd.action = StreamAction
    /\ Len(wire) < MaxWire
    /\ \E out \in Outcomes(cmd.action) :
          /\ inbox' = InboxAfter(cmd, out)
          /\ wire' = EmitAll(Replies(cmd, out))
          /\ served' = Served(cmd, out, Replies(cmd, out))
    /\ subs' = subs \cup {[rid |-> cmd.rid, ch |-> cmd.ch]}
    /\ UNCHANGED <<connected, connecting, of, nBinds, chan, connL, respL, prom,
                   follow, nCalls, call, timer, probe, daemon, starting, spawns,
                   events, disc, stopCall, dying, seen, failure, procVars, appVars>>

\* A room event reaches the subscription s: the injected callback emits a
\* success response with the requestId of the subscription.
streamEvent(s) ==
    /\ s \in subs /\ events[s.rid] < MaxEvents
    /\ Len(wire) < MaxWire
    /\ events' = [events EXCEPT ![s.rid] = @ + 1]
    /\ LET r == [rid |-> s.rid, ok |-> TRUE, val |-> "message", ch |-> s.ch]
       IN  /\ wire' = Emit(r)
           /\ served' = [served EXCEPT ![s.rid].okOut = @ + 1]
    /\ UNCHANGED <<connected, connecting, of, nBinds, chan, connL, respL, prom,
                   follow, nCalls, call, timer, probe, daemon, starting, spawns,
                   inbox, subs, disc, stopCall, dying, seen, failure, procVars, appVars>>

\* ------------------------------------------------- responses and timeouts

\* resolve(v) / reject(e) of a promise: only a pending promise settles.
Resolve(rec, v) ==
    IF rec.st = "pending"
    THEN [rec EXCEPT !.st = "resolved", !.val = v, !.settles = @ + 1] ELSE rec

Reject(rec, e) ==
    IF rec.st = "pending"
    THEN [rec EXCEPT !.st = "rejected", !.err = e, !.settles = @ + 1] ELSE rec

\* Correlation by arrival order: the oldest registered call takes the response.
Matches_fifo(c, r) == \A d \in respL : c <= d

\* No correlation: every registered handler takes every response.
Matches_any(c, r) == TRUE

\* `if (!response || response.requestId !== requestId) return;`
Matches(c, r) == r.rid = c

\* A handler that never calls off('response', handler).
Keeps_always(c, r) == TRUE

\* A handler that calls off('response', handler) after every response.
Keeps_never(c, r) == FALSE

\* A streaming handler that stays registered whatever the response says.
Keeps_stream(c, r) == call[c].kind = StreamAction

\* The handler of call c stays registered after it handled r: only after a
\* successful response of a streaming call.
Keeps(c, r) == r.ok /\ call[c].kind = StreamAction

\* handler(response) of call c, for a response that passed the requestId test.
handler(c, r) ==
    LET rec == [call[c] EXCEPT !.from = @ \cup {r.rid}] IN
    IF r.ok
    THEN IF call[c].kind = StreamAction
         THEN Resolve([rec EXCEPT !.cb = @ + 1], "undefined")
         ELSE Resolve(rec, r.val)
    ELSE IF rec.st = "pending"
         THEN [Reject(rec, [kind |-> "backend", action |-> "none"]) EXCEPT !.msg = r.val]
         ELSE rec

\* The `response` parameter of handler: any envelope for a request of this
\* handle, successful or not.
Envelopes ==
    {[rid |-> c, ok |-> ok, val |-> IF ok THEN "message" ELSE "error", ch |-> of] :
        c \in Calls, ok \in BOOLEAN}

\* The socket of ipc.of.matrix_daemon reads a 'response' event with the
\* envelope r.
arrives(r) ==
    /\ of # 0 /\ chan[of] = "open" /\ call[r.rid].kind \in Actions
    /\ Len(wire) < MaxWire
    /\ call[r.rid].recvOk + call[r.rid].recvFail
          + Count(wire, r.rid, TRUE) + Count(wire, r.rid, FALSE) < MaxArrivals
    /\ wire' = Append(wire, r)
    /\ UNCHANGED <<connected, connecting, of, nBinds, chan, connL, respL, prom,
                   follow, nCalls, call, timer, probe, daemon, starting, spawns,
                   inbox, subs, events, served, disc, stopCall, dying, seen,
                   failure, procVars, appVars>>

\* The oldest response in flight arrives: the channel publishes 'response'
\* to every registered handler.
deliver ==
    /\ wire # <<>>
    /\ LET r == Head(wire)
           H == {c \in respL : Matches(c, r)}
       IN  /\ wire' = Tail(wire)
           /\ call' = [c \in Calls |->
                  LET rec == IF c \in H THEN handler(c, r) ELSE call[c]
                  IN  IF c # r.rid THEN rec
                      ELSE IF r.ok THEN [rec EXCEPT !.recvOk = @ + 1]
                      ELSE [rec EXCEPT !.recvFail = @ + 1]]
           /\ respL' = respL \ {c \in H : ~Keeps(c, r)}
    /\ UNCHANGED <<connected, connecting, of, nBinds, chan, connL, prom, follow,
                   nCalls, timer, probe, daemon, starting, spawns, inbox, subs,
                   events, served, disc, stopCall, dying, seen, failure, procVars, appVars>>

\* The 10 s timer of call c: off('response', handler) on whatever
\* ipc.of.matrix_daemon is now, then reject.  With ipc.of.matrix_daemon
\* undefined the callback throws a TypeError before it reaches reject.
timeout(c) ==
    /\ timer[c] = "armed"
    /\ \/ /\ of = 0
          /\ timer' = [timer EXCEPT ![c] = "threw"]
          /\ UNCHANGED <<call, respL>>
       \/ /\ of # 0
          /\ timer' = [timer EXCEPT ![c] = "fired"]
          /\ respL' = respL \ {c}
          /\ call' = [call EXCEPT ![c] = Reject(@, TimeoutError(call[c].kind))]
    /\ UNCHANGED <<connected, connecting, of, nBinds, chan, connL, prom, follow,
                   nCalls, probe, daemon, starting, spawns, inbox, subs, events,
                   wire, served, disc, stopCall, dying, seen, failure, procVars, appVars>>

\* ------------------------------------------- disconnect, isDaemonRunning

\* this.ipc.disconnect('matrix_daemon'): nothing without a client object;
\* otherwise every listener of the object is removed, its socket destroyed
\* (what was in flight on it is lost) and ipc.of.matrix_daemon deleted.
closeSocket ==
    /\ chan' = [ch \in Chans |-> IF ch = of /\ chan[ch] # "unused"
                                  THEN "closed" ELSE chan[ch]]
    /\ connL' = connL \ {of}
    /\ respL' = IF of = 0 THEN respL ELSE {}
    /\ wire' = IF of = 0 THEN wire ELSE <<>>

\* The stopDaemon() call once the client object is gone: onStopped is no
\* longer registered and a 'stopped' in flight is lost.
Detached(s) == IF of = 0 THEN s ELSE [s EXCEPT !.on = 0, !.conf = 0]

ipcDisconnect ==
    /\ closeSocket
    /\ stopCall' = Detached(stopCall)

\* `if (!this.connected || !this.ipc.of.matrix_daemon) return resolve();`
Closes == connected /\ of # 0

\* disconnect(): what it does at once; its promise resolves 100 ms later.
\* disc records whether the handle was connected and what the call did.
disconnect ==
    /\ \/ /\ Closes
          /\ ipcDisconnect
          /\ of' = 0
          /\ connected' = FALSE
          /\ connecting' = 0
          /\ disc' = [was |-> connected, did |-> "closed"]
       \/ /\ ~Closes
          /\ disc' = [was |-> connected, did |-> "nothing"]
          /\ UNCHANGED <<connected, connecting, of, chan, connL, respL, wire,
                         stopCall>>
    /\ UNCHANGED <<nBinds, prom, follow, nCalls, call, timer, probe, daemon,
                   starting, spawns, inbox, subs, events, served, dying, seen, failure, procVars, appVars>>

\* isDaemonRunning(): disconnect whatever the handle holds, then connectTo
\* with the probe's own onConnect/onError and the 3 s timer.
isDaemonRunning ==
    /\ probe # "running"
    /\ nBinds < MaxBinds
    /\ nBinds' = nBinds + 1
    /\ chan' = [ch \in Chans |-> IF ch = nBinds + 1 THEN "connecting"
                                  ELSE IF ch = of THEN "closed" ELSE chan[ch]]
    /\ connL' = connL \ {of}
    /\ respL' = IF of = 0 THEN respL ELSE {}
    /\ wire' = IF of = 0 THEN wire ELSE <<>>
    /\ stopCall' = IF of = 0 THEN stopCall
                   ELSE [stopCall EXCEPT !.on = 0, !.conf = 0]
    /\ of' = nBinds + 1
    /\ probe' = "running"
    /\ seen' = [ev |-> "none", bound |-> FALSE,
                afterStop |-> (stopCall.st = "resolved" /\ spawns = stopCall.sp)]
    /\ UNCHANGED <<connected, connecting, prom, follow, nCalls, call, timer,
                   daemon, starting, spawns, inbox, subs, events, served, disc,
                   dying, failure, procVars, appVars>>

\* A probe that takes every connection error for "not running".
ProbeResult_errorIsFalse(ev) ==
    IF ev = "connect" THEN "true"
    ELSE IF ev \in {"ENOENT", "error"} THEN "false" ELSE "rejected"

\* How the probe settles on the event that ends it: resolve(true) in
\* onConnect, resolve(false) on err.code === 'ENOENT', reject on any other
\* error and when the 3 s timer fires.
ProbeResult(ev) ==
    IF ev = "connect" THEN "true"
    ELSE IF ev = "ENOENT" THEN "false" ELSE "rejected"

ProbeEvents == {"connect", "ENOENT", "error", "timer"}

\* A probe whose onError starts a daemon when it finds none.
ProbeSpawns_onENOENT(ev) == ev = "ENOENT"

\* The probe's onConnect, onError and timer callback call cleanup() and
\* settle the promise; none of them calls startDaemonProcess().
ProbeSpawns(ev) == FALSE

\* The probe ends: its socket connects, fails with ENOENT (no socket file) or
\* with another error, or the 3 s timer fires.  cleanup() disconnects the
\* probe's client object in every case.
probeEnds(ev) ==
    /\ probe = "running"
    /\ ev = "connect" => daemon = "bound"
    /\ ev = "ENOENT" => daemon = "down"
    /\ ipcDisconnect
    /\ of' = 0
    /\ probe' = ProbeResult(ev)
    /\ seen' = [seen EXCEPT !.ev = ev, !.bound = (daemon = "bound")]
    /\ IF ProbeSpawns(ev) THEN startDaemonProcess ELSE UNCHANGED <<starting, spawns>>
    /\ UNCHANGED <<connected, connecting, nBinds, prom, follow, nCalls, call,
                   timer, daemon, inbox, subs, events, served,
                   disc, dying, failure, procVars, appVars>>

\* ------------------------------------------------------------- stopDaemon

\* A stopDaemon() without the check of this.connected.
NotConnected_unchecked == FALSE

\* `if (!this.connected) { throw new Error('Not connected to daemon.'); }`
NotConnected == ~connected

\* stopDaemon(), called once: it throws when the handle is not connected;
\* otherwise it emits 'stop_daemon', registers onStopped and arms the 10 s
\* timer.  With ipc.of.matrix_daemon undefined the executor throws a
\* TypeError and the promise rejects.
stopDaemon ==
    /\ stopCall.st = "none"
    /\ stopCall' =
          IF NotConnected
          THEN [stopCall EXCEPT !.st = "rejected", !.err = "Not connected to daemon."]
          ELSE IF of = 0
          THEN [stopCall EXCEPT !.st = "rejected", !.err = "TypeError", !.was = TRUE]
          ELSE [stopCall EXCEPT !.st = "waiting", !.on = of, !.timer = "armed",
                                !.was = TRUE, !.sent = TRUE,
                                !.req = IF chan[of] = "open" THEN of ELSE 0]
    /\ UNCHANGED <<connected, connecting, of, nBinds, chan, connL, respL, prom,
                   follow, nCalls, call, timer, probe, daemon, starting, spawns,
                   inbox, subs, events, wire, served, disc, dying, seen, failure, procVars, appVars>>

\* this.client of MatrixDaemon: the constructor sets ipc and commands, and
\* start() keeps the Matrix client it creates in a local constant.
ThisClient == "undefined"

\* What stop() does, in order: this.ipc.server.stop(), then
\* this.client?.stopClient?.(), which is skipped when this.client is undefined.
StopSteps ==
    <<"server.stop">> \o (IF ThisClient = "undefined" THEN <<>> ELSE <<"stopClient">>)

\* A handler that confirms before it stops serving.
HandlerSteps_confirmFirst == <<"stopped">> \o StopSteps

\* What the 'stop_daemon' handler does before it returns, in order: stop(),
\* then emit 'stopped'; process.exit runs from a timer 100 ms later.
HandlerSteps == StopSteps \o <<"stopped">>

\* MatrixDaemon.stop() in process pid: this.ipc.server.stop() closes the
\* server, which removes the socket file, so the name is free, while the
\* connections the process has stay open.
stop(pid) ==
    /\ daemon' = "down"
    /\ servers' = servers \ {pid}
    /\ dying' = [on |-> TRUE,
                 chans |-> {ch \in Chans : owner[ch] = pid /\ chan[ch] \in {"open", "closed"}},
                 log |-> HandlerSteps]

\* The 'stop_daemon' handler: stop(), then 'stopped' to the requesting
\* socket; the process exits 100 ms later.
onStopDaemon ==
    /\ stopCall.req # 0
    /\ stop(owner[stopCall.req])
    /\ stopCall' = [stopCall EXCEPT
                       !.req = 0,
                       !.conf = IF chan[stopCall.req] = "open" THEN stopCall.req ELSE 0]
    /\ UNCHANGED <<connected, connecting, of, nBinds, chan, connL, respL, prom,
                   follow, nCalls, call, timer, probe, starting, spawns, inbox,
                   subs, events, wire, served, disc, seen, failure, procs, owner,
                   inits, ready, executor, initFailed, appVars>>

\* The 'stop_daemon' handler of process pid, for the request of another
\* client: stop(); the process exits 100 ms later.
stopRequested(pid) ==
    /\ pid \in servers /\ ~dying.on /\ stopCall.req = 0
    /\ stop(pid)
    /\ UNCHANGED <<connected, connecting, of, nBinds, chan, connL, respL, prom,
                   follow, nCalls, call, timer, probe, starting, spawns, inbox,
                   subs, events, wire, served, disc, stopCall, seen, failure,
                   procs, owner, inits, ready, executor, initFailed, appVars>>

\* ------------------------------------------------ a daemon with several clients

\* An emit that reaches every connected client (ipc.server.broadcast).
Sockets_broadcast(e) == hub.open

\* this.ipc.server.emit(socket, ...) with the socket the listener was called
\* with: the connection the request came on.
Sockets(e) == {e.ch}

\* out after the envelopes es were emitted; what goes to a connection that
\* has closed is lost.
Sent(es) ==
    [cl \in Clients |->
        hub.out[cl] \o SelectSeq(es, LAMBDA e : cl \in Sockets(e) /\ cl \in hub.open)]

\* lost after the envelopes es were emitted.
Lost(es) ==
    hub.lost \o SelectSeq(es, LAMBDA e : \E cl \in Sockets(e) : cl \notin hub.open)

Roomy == Len(hub.lost) < MaxOut /\ \A cl \in Clients : Len(hub.out[cl]) < MaxOut

\* A daemon that removes the subscriptions of a connection when it closes.
SubsAfter_cleanup(cl) == {s \in hub.subs : s.ch # cl}

\* The subscriptions after the connection cl closed: setupIPC registers no
\* listener for a closing socket, and the 'command' listener drops the cleanup
\* function that streamMessages returns.
SubsAfter(cl) == hub.subs

hubFrame == UNCHANGED <<handleVars, procVars, proxy, exec, cli, gm>>

\* The server accepts the connection of one more client.
accept(cl) ==
    /\ cl \notin hub.open /\ ~hub.stopped /\ hub.out[cl] = <<>>
    /\ hub' = [hub EXCEPT !.open = @ \cup {cl}]
    /\ hubFrame

\* A 'command' event on the connection cl: the listener is called with the
\* data and with that socket.
onCommand(cl, a) ==
    /\ cl \in hub.open /\ hub.n < MaxReqs
    /\ hub' = [hub EXCEPT !.n = @ + 1,
                          !.reqs = @ \cup {[rid |-> hub.n + 1, ch |-> cl, action |-> a]}]
    /\ hubFrame

\* The backend call of cmd has ended: the response, if any, is emitted, and
\* a streamMessages call has registered its listener.
answer(cmd, out) ==
    /\ cmd \in hub.reqs /\ out \in Outcomes(cmd.action) /\ Roomy
    /\ hub' = [hub EXCEPT
                  !.reqs = @ \ {cmd},
                  !.subs = IF cmd.action = StreamAction /\ out.ok
                           THEN @ \cup {[rid |-> cmd.rid, ch |-> cmd.ch]} ELSE @,
                  !.out = Sent(Replies(cmd, out)),
                  !.lost = Lost(Replies(cmd, out))]
    /\ hubFrame

\* A room event reaches the listener of subscription s: its callback emits
\* a success response with the requestId of s.
onRoomEvent(s) ==
    /\ s \in hub.subs /\ Roomy
    /\ LET e == [rid |-> s.rid, ok |-> TRUE, val |-> "message", ch |-> s.ch]
       IN  hub' = [hub EXCEPT !.out = Sent(<<e>>), !.lost = Lost(<<e>>)]
    /\ hubFrame

\* A 'stop_daemon' event on the connection cl: stop(), then 'stopped' on
\* that socket.
onStopRequest(cl) ==
    /\ cl \in hub.open /\ Roomy
    /\ hub' = [hub EXCEPT
                  !.stopped = TRUE,
                  !.out = Sent(<<[rid |-> 0, ok |-> TRUE, val |-> "stopped", ch |-> cl]>>)]
    /\ hubFrame

\* The client of connection cl closes it.
socketCloses(cl) ==
    /\ cl \in hub.open
    /\ hub' = [hub EXCEPT !.open = @ \ {cl}, !.subs = SubsAfter(cl)]
    /\ hubFrame

\* process.exit(0): the sockets of the process close and what it was
\* executing is dropped.
processExit ==
    /\ dying.on
    /\ dying' = [NoDying EXCEPT !.log = Append(dying.log, "exit")]
    /\ chan' = [ch \in Chans |-> IF ch \in dying.chans /\ chan[ch] = "open"
                                  THEN "closed" ELSE chan[ch]]
    /\ inbox' = {m \in inbox : m.ch \notin dying.chans}
    /\ subs' = {m \in subs : m.ch \notin dying.chans}
    /\ UNCHANGED <<connected, connecting, of, nBinds, connL, respL, prom, follow,
                   nCalls, call, timer, probe, daemon, starting, spawns, events,
                   wire, served, disc, stopCall, seen, failure, procVars, appVars>>

\* 'stopped' reaches the client.  onStopped, if still registered: off, then
\* `await this.disconnect()`, whose promise resolves 100 ms later.
onStopped ==
    /\ stopCall.conf # 0
    /\ \/ /\ stopCall.on = stopCall.conf
          /\ stopCall' = [Detached(stopCall) EXCEPT !.on = 0, !.conf = 0,
                                                    !.got = TRUE, !.st = "closing",
                                                    !.sp = spawns]
          /\ \/ /\ Closes
                /\ closeSocket
                /\ of' = 0
                /\ connected' = FALSE
                /\ connecting' = 0
                /\ disc' = [was |-> connected, did |-> "closed"]
             \/ /\ ~Closes
                /\ disc' = [was |-> connected, did |-> "nothing"]
                /\ UNCHANGED <<connected, connecting, of, chan, connL, respL, wire>>
       \/ /\ stopCall.on # stopCall.conf
          /\ stopCall' = [stopCall EXCEPT !.conf = 0]
          /\ UNCHANGED <<connected, connecting, of, chan, connL, respL, wire, disc>>
    /\ UNCHANGED <<nBinds, prom, follow, nCalls, call, timer, probe, daemon,
                   starting, spawns, inbox, subs, events, served, dying, seen, failure, procVars, appVars>>

\* The 100 ms of disconnect() are over: stopDaemon's resolve().
stopGrace ==
    /\ stopCall.st = "closing"
    /\ stopCall' = [stopCall EXCEPT !.st = "resolved"]
    /\ UNCHANGED <<connected, connecting, of, nBinds, chan, connL, respL, prom,
                   follow, nCalls, call, timer, probe, daemon, starting, spawns,
                   inbox, subs, events, wire, served, disc, dying, seen, failure, procVars, appVars>>

\* reject(new Error('Daemon stop request timed out')) of a pending promise.
StopTimedOut(s) ==
    IF s.st \in {"waiting", "closing"}
    THEN [s EXCEPT !.st = "rejected", !.err = "Daemon stop request timed out"]
    ELSE s

\* The 10 s timer of stopDaemon(), which nothing clears: off('stopped',
\* onStopped) on whatever ipc.of.matrix_daemon is now, then reject.  With
\* ipc.of.matrix_daemon undefined the callback throws a TypeError.
stopTimeout ==
    /\ stopCall.timer = "armed"
    /\ stopCall' =
          IF of = 0 THEN [stopCall EXCEPT !.timer = "threw"]
          ELSE [StopTimedOut(stopCall) EXCEPT
                    !.timer = "fired",
                    !.on = IF stopCall.on = of THEN 0 ELSE stopCall.on]
    /\ UNCHANGED <<connected, connecting, of, nBinds, chan, connL, respL, prom,
                   follow, nCalls, call, timer, probe, daemon, starting, spawns,
                   inbox, subs, events, wire, served, disc, dying, seen, failure, procVars, appVars>>

\* ------------------------------------------------------ MatrixClientProxy

\* A getter that returns the mode the constructor cached.
Mode_cached == proxy.cached

\* `get mode() { return config.useDaemon ? 'daemon' : 'direct'; }`
Mode == IF proxy.useDaemon THEN "daemon" ELSE "direct"

\* The execute() call made next.
NextExec == CHOOSE e \in Execs : exec[e].st = "none" /\ \A d \in Execs : d < e => exec[d].st # "none"

\* execute(action, params) up to the first point where getCommands() waits:
\* in daemon mode it returns the daemonClient; in direct mode it returns
\* this.directCommands if that is set, and otherwise constructs a Matrix
\* client and awaits its start.
execute ==
    /\ \E e \in Execs : exec[e].st = "none"
    /\ LET e == NextExec
           r == [NoExec EXCEPT !.pref = proxy.useDaemon, !.assigned = proxy.assigned]
       IN  IF Mode = "daemon"
           THEN /\ exec' = [exec EXCEPT ![e] = [r EXCEPT !.st = "done", !.route = "daemon"]]
                /\ proxy' = proxy
           ELSE IF proxy.directCommands # 0
           THEN /\ exec' = [exec EXCEPT ![e] = [r EXCEPT !.st = "done", !.route = "direct",
                                                         !.pair = proxy.directCommands]]
                /\ proxy' = proxy
           ELSE /\ exec' = [exec EXCEPT ![e] = [r EXCEPT !.st = "creating", !.route = "direct",
                                                         !.mine = proxy.made + 1]]
                /\ proxy' = [proxy EXCEPT !.made = @ + 1]
    /\ UNCHANGED <<connected, connecting, of, nBinds, chan, connL, respL, prom,
                   follow, nCalls, call, timer, probe, daemon, starting, spawns,
                   inbox, subs, events, wire, served, disc, stopCall, dying, seen,
                   failure, procVars, hub, cli, gm>>

\* An execute() that hands every call to the daemonClient, whatever
\* getCommands() returned.
Dispatched_all == {e \in Execs : exec[e].st = "done"}

\* The execute() calls whose `commands` is the daemonClient: for them
\* commands[action](params) is daemonClient.execute(action, params), which is
\* sendCommand(action, params).
Dispatched == {e \in Execs : exec[e].st = "done" /\ exec[e].route = "daemon"}

\* `const result = commands[action](params);` of an execute() call in daemon
\* mode, one tick after getCommands() returned.
daemonExecute ==
    /\ Cardinality(Dispatched) > Cardinality({c \in Calls : call[c].kind \in Actions})
    /\ sendCommand

\* client.start() of call e resolves: this.directCommands = new
\* MatrixCommands(client), and getCommands() returns this.directCommands.
created(e) ==
    /\ exec[e].st = "creating"
    /\ proxy' = [proxy EXCEPT !.directCommands = exec[e].mine]
    /\ exec' = [exec EXCEPT ![e] = [@ EXCEPT !.st = "done", !.pair = exec[e].mine]]
    /\ UNCHANGED <<connected, connecting, of, nBinds, chan, connL, respL, prom,
                   follow, nCalls, call, timer, probe, daemon, starting, spawns,
                   inbox, subs, events, wire, served, disc, stopCall, dying, seen,
                   failure, procVars, hub, cli, gm>>

\* client.start() of call e fails: _createDirectClient() throws "Client
\* initialization failed" and execute() rejects.
createFails(e) ==
    /\ exec[e].st = "creating"
    /\ exec' = [exec EXCEPT ![e] = [@ EXCEPT !.st = "failed"]]
    /\ UNCHANGED <<connected, connecting, of, nBinds, chan, connL, respL, prom,
                   follow, nCalls, call, timer, probe, daemon, starting, spawns,
                   inbox, subs, events, wire, served, disc, stopCall, dying, seen,
                   failure, procVars, hub, proxy, cli, gm>>

\* setDaemon(state): config.useDaemon = state, then the file is saved.
setDaemon(state) ==
    /\ proxy.useDaemon # state
    /\ proxy' = [proxy EXCEPT !.useDaemon = state]
    /\ UNCHANGED <<connected, connecting, of, nBinds, chan, connL, respL, prom,
                   follow, nCalls, call, timer, probe, daemon, starting, spawns,
                   inbox, subs, events, wire, served, disc, stopCall, dying, seen,
                   failure, procVars, hub, exec, cli, gm>>

\* `set mode(value) { this._mode = value; }`
setMode(value) ==
    /\ proxy.assigned # value
    /\ proxy' = [proxy EXCEPT !.cached = value, !.assigned = value]
    /\ UNCHANGED <<connected, connecting, of, nBinds, chan, connL, respL, prom,
                   follow, nCalls, call, timer, probe, daemon, starting, spawns,
                   inbox, subs, events, wire, served, disc, stopCall, dying, seen,
                   failure, procVars, hub, exec, cli, gm>>

\* ------------------------------------------------------------- room list

\* What `await client.listRooms(options)` gives the CLI: what the backend
\* operation gives, or the rejection of a command that could not be sent.
ListOutcomes == Outcomes("listRooms") \cup {[ok |-> FALSE, val |-> "ECONNREFUSED"]}

\* listRooms(options) of the CLI: the try block prints the rooms; the catch
\* block prints 'Failed to list rooms:' with the message.  Both return.
CliListRooms(out) ==
    IF out.ok THEN [ends |-> "returned", shown |-> "rooms"]
    ELSE [ends |-> "returned", shown |-> "Failed to list rooms"]

\* The action of `room list`: process.exit(0) after listRooms returned,
\* process.exit(1) from its catch.
ExitCode(ends) == IF ends = "returned" THEN 0 ELSE 1

\* `room list` runs once.
roomList(out) ==
    /\ cli.st = "none"
    /\ out \in ListOutcomes
    /\ cli' = [st |-> "done", out |-> out,
               ends |-> CliListRooms(out).ends, shown |-> CliListRooms(out).shown,
               exit |-> ExitCode(CliListRooms(out).ends)]
    /\ UNCHANGED <<connected, connecting, of, nBinds, chan, connL, respL, prom,
                   follow, nCalls, call, timer, probe, daemon, starting, spawns,
                   inbox, subs, events, wire, served, disc, stopCall, dying, seen,
                   failure, procVars, hub, proxy, exec, gm>>

\* ------------------------------------------------------------ getMessages

\* What a page of /messages can hold: events of any type with any
\* origin_server_ts, in the order the server gives them.
EventTypes == {"m.room.message", "m.room.member"}
Events == [ts : 1..MaxTs, type : EventTypes]
Chunks == UNION {[1..n -> Events] : n \in 0..MaxChunk}

RECURSIVE Reverse(_)
Reverse(q) == IF q = <<>> THEN <<>> ELSE Append(Reverse(Tail(q)), Head(q))

\* The `for (const event of response.chunk)` loop from event i on, with msgs
\* collected so far: an event before startTime ends the paging for direction
\* 'b' and is skipped otherwise, one after endTime ends it for 'f' and is
\* skipped otherwise; an m.room.message in the range is pushed; the loop ends
\* the paging once messages.length >= limit.
RECURSIVE Scan(_, _, _, _)
Scan(chunk, i, msgs, g) ==
    IF i > Len(chunk) THEN [messages |-> msgs, hasMore |-> TRUE]
    ELSE LET event == chunk[i] IN
         IF event.ts < g.startTime
         THEN IF g.direction = "b" THEN [messages |-> msgs, hasMore |-> FALSE]
              ELSE Scan(chunk, i + 1, msgs, g)
         ELSE IF event.ts > g.endTime
         THEN IF g.direction = "f" THEN [messages |-> msgs, hasMore |-> FALSE]
              ELSE Scan(chunk, i + 1, msgs, g)
         ELSE LET pushed == IF event.type = "m.room.message"
                            THEN Append(msgs, event) ELSE msgs
              IN  IF Len(pushed) >= g.limit
                  THEN [messages |-> pushed, hasMore |-> FALSE]
                  ELSE Scan(chunk, i + 1, pushed, g)

\* `while (messages.length < limit && hasMore)`
Paging(g) == Len(g.messages) < g.limit /\ g.hasMore

\* getMessages({roomId, startDate, endDate, options}) up to its first request;
\* without a sync token it throws.
getMessages(limit, startDate, endDate, direction, token) ==
    /\ gm.st = "none"
    /\ gm' = [NoGm EXCEPT !.st = IF token THEN "running" ELSE "threw",
                          !.limit = limit, !.startTime = startDate,
                          !.endTime = endDate, !.direction = direction]
    /\ UNCHANGED <<connected, connecting, of, nBinds, chan, connL, respL, prom,
                   follow, nCalls, call, timer, probe, daemon, starting, spawns,
                   inbox, subs, events, wire, served, disc, stopCall, dying, seen,
                   failure, procVars, hub, proxy, exec, cli>>

\* One turn of the while loop: the server answers with chunk, and with an
\* `end` token or without one.
fetchPage(chunk, end) ==
    /\ gm.st = "running" /\ Paging(gm) /\ gm.pages < MaxPages
    /\ gm' = IF chunk = <<>>
             THEN [gm EXCEPT !.hasMore = FALSE, !.pages = @ + 1]
             ELSE LET r == Scan(chunk, 1, gm.messages, gm)
                  IN  [gm EXCEPT !.messages = r.messages,
                                 !.hasMore = r.hasMore /\ end,
                                 !.pages = @ + 1]
    /\ UNCHANGED <<connected, connecting, of, nBinds, chan, connL, respL, prom,
                   follow, nCalls, call, timer, probe, daemon, starting, spawns,
                   inbox, subs, events, wire, served, disc, stopCall, dying, seen,
                   failure, procVars, hub, proxy, exec, cli>>

\* The request fails: the catch logs and rethrows.
fetchFails ==
    /\ gm.st = "running" /\ Paging(gm) /\ gm.pages < MaxPages
    /\ gm' = [gm EXCEPT !.st = "threw"]
    /\ UNCHANGED <<connected, connecting, of, nBinds, chan, connL, respL, prom,
                   follow, nCalls, call, timer, probe, daemon, starting, spawns,
                   inbox, subs, events, wire, served, disc, stopCall, dying, seen,
                   failure, procVars, hub, proxy, exec, cli>>

\* The loop is over: `if (direction === 'b') messages.reverse(); return messages;`
returnMessages ==
    /\ gm.st = "running" /\ ~Paging(gm)
    /\ gm' = [gm EXCEPT !.st = "returned",
                        !.got = IF gm.direction = "b" THEN Reverse(gm.messages)
                                ELSE gm.messages]
    /\ UNCHANGED <<connected, connecting, of, nBinds, chan, connL, respL, prom,
                   follow, nCalls, call, timer, probe, daemon, starting, spawns,
                   inbox, subs, events, wire, served, disc, stopCall, dying, seen,
                   failure, procVars, hub, proxy, exec, cli>>

\* ----------------------------------------------------------------- claims

Settled(c) == call[c].st \in {"resolved", "rejected"}

\* What the caller of a command can observe of its call.
Outcome(rec) == <<rec.st, rec.val, rec.err, rec.settles, rec.cb>>

\* C1: a connect() call made while an attempt is in progress opens no
\* channel of its own, waits for the promise of that attempt, and resolves or
\* rejects exactly when and as that promise does.
C1_SingleInFlightConnect ==
    \A c \in Calls : call[c].during # 0 =>
        /\ call[c].binds = 0
        /\ call[c].await = call[c].during
        /\ (call[c].conn = "ok") = (prom[call[c].during] = "resolved")
        /\ (call[c].conn = "err") = (prom[call[c].during] = "rejected")

\* A caller joined the attempt another caller had started, and both resolved.
C1_Witness ==
    \E c, d \in Calls :
        /\ c # d /\ call[c].binds = 1 /\ call[d].during = call[c].await
        /\ call[c].conn = "ok" /\ call[d].conn = "ok"

\* C2: a connect() call made while an attempt waits for its retry after
\* ENOENT joins that attempt: it opens no channel of its own (and so can
\* lead to no further spawn).
C2_BackoffIsConnecting ==
    \A c \in Calls : call[c].inBackoff # 0 =>
        call[c].binds = 0 /\ call[c].await = call[c].inBackoff

\* C3: a single connect() made with no daemon bound has seen exactly one
\* spawn when it resolves.
C3_OneSpawnThenResolve ==
    \A c \in Calls :
        (nCalls = 1 /\ call[c].noDaemon /\ call[c].conn = "ok") =>
            call[c].sp1 = call[c].sp0 + 1

\* C4: an atomic command settles at most once; once a response was handled
\* or the timer's callback ran it has settled exactly once; a settled command
\* has no listener on the channel; and what its caller observes never changes
\* after the settlement, whatever arrives or fires later.
C4_State ==
    \A c \in Calls : call[c].kind \in AtomicActions =>
        /\ call[c].settles <= 1
        /\ Settled(c) = (call[c].settles = 1)
        /\ (call[c].from # {} \/ timer[c] = "fired") => call[c].settles = 1
        /\ Settled(c) => c \notin respL

C4_Step ==
    \A c \in Calls : (call[c].kind \in AtomicActions /\ Settled(c)) =>
        Outcome(call'[c]) = Outcome(call[c])

C4_AtomicExactlyOnce == []C4_State /\ [][C4_Step]_vars

\* The response settled the command and the timer ran afterwards.
C4_Witness ==
    \E c \in Calls :
        /\ call[c].kind \in AtomicActions
        /\ call[c].st = "resolved" /\ call[c].from = {c} /\ timer[c] = "fired"

\* C5: the handler of a call acts only on responses that carry the call's
\* own requestId, and an atomic call resolves with the data of the response
\* to its own request (what the channel delivers of the backend's result).
C5_CorrelatedByRequestId ==
    \A c \in Calls :
        /\ call[c].from \subseteq {c}
        /\ (call[c].kind \in AtomicActions /\ call[c].st = "resolved") =>
               call[c].val = Json(served[c].ret)

\* Two commands were in flight together and the later one completed first.
C5_Witness ==
    \E c, d \in Calls :
        /\ c < d
        /\ call[c].kind \in Actions /\ call[c].st = "pending" /\ c \in respL
        /\ call[c].from = {}
        /\ call[d].kind \in AtomicActions /\ call[d].st = "resolved"
        /\ call[d].from = {d}
        /\ \E m \in inbox : m.rid = c

\* C6: when the 10 s timer of an atomic command runs and no response for it
\* was handled before, the command is rejected with the timeout error that
\* names its action and its listener is removed; this stays so when a
\* response for it arrives later.
C6_TimeoutNamesAction ==
    \A c \in Calls :
        (call[c].kind \in AtomicActions /\ timer[c] = "fired" /\ call[c].from = {}) =>
            /\ call[c].st = "rejected"
            /\ call[c].err = [kind |-> "timeout", action |-> call[c].kind]
            /\ c \notin respL

\* A command timed out and the successful response to it arrived afterwards.
C6_Witness ==
    \E c \in Calls :
        /\ call[c].kind \in AtomicActions /\ timer[c] = "fired"
        /\ call[c].st = "rejected" /\ call[c].err.kind = "timeout"
        /\ call[c].recvOk = 1

\* C7: once the 10 s of an atomic command are over, the command is no longer
\* pending, also when the channel was closed in between.
C7_TimeoutAfterClose ==
    \A c \in Calls :
        (call[c].kind \in AtomicActions /\ timer[c] \in {"fired", "threw"}) =>
            call[c].st # "pending"

\* C8: for a streaming command, params.callback has run once for every
\* successful response with its requestId that reached the client, and the
\* promise is resolved, once, exactly from the first such response on.
C8_StreamingMultiplicity ==
    \A c \in Calls : call[c].kind = StreamAction =>
        /\ call[c].cb = call[c].recvOk
        /\ (call[c].st = "resolved") = (call[c].recvOk >= 1)
        /\ call[c].settles <= 1
        /\ call[c].recvOk >= 1 => call[c].settles = 1

\* A stream has delivered two events.
C8_Witness ==
    \E c \in Calls :
        /\ call[c].kind = StreamAction
        /\ call[c].recvOk = 2 /\ call[c].cb = 2 /\ call[c].settles = 1

\* C9: a response that reaches the client while no handler is registered for
\* its requestId changes nothing of the handle and nothing any caller
\* observes.
C9_Step ==
    \A c \in Calls :
        (c \notin respL /\
         <<call'[c].recvOk, call'[c].recvFail>> # <<call[c].recvOk, call[c].recvFail>>) =>
            /\ \A d \in Calls : Outcome(call'[d]) = Outcome(call[d])
            /\ UNCHANGED <<connected, connecting, of, chan, respL, timer>>

C9_UnmatchedDiscarded == [][C9_Step]_vars

\* The failure response to a command arrived after the command timed out,
\* while another call was still registered.
C9_Witness ==
    \E c \in Calls :
        /\ timer[c] = "fired" /\ call[c].err.kind = "timeout"
        /\ call[c].recvFail = 1
        /\ respL # {}

\* C10: after an isDaemonRunning() probe a Connected handle still holds its
\* open channel.
C10_ProbeLeavesConnection ==
    (probe \in {"true", "false", "rejected"} /\ connected) =>
        (of # 0 /\ chan[of] = "open")

RECURSIVE Origin(_)
Origin(p) == IF follow[p] # 0 THEN Origin(follow[p]) ELSE p

\* C12: when an attempt fails with an error other than ENOENT, its promise is
\* rejected and every caller that waited for it has connect() rejected with
\* that very error code; the failing step spawns no daemon, opens no channel,
\* starts no backoff and leaves the handle Idle (not connected, no
\* this.connecting), so that the next connect() opens a channel of its own.
C12_State ==
    /\ \A p \in Chans : failure[p] \in OtherCodes => prom[p] = "rejected"
    /\ \A c \in Calls :
          (call[c].await # 0 /\ failure[Origin(call[c].await)] \in OtherCodes) =>
              /\ call[c].conn = "err"
              /\ call[c].cerr = failure[Origin(call[c].await)]

C12_Step ==
    \A p \in Chans : (failure[p] = "none" /\ failure'[p] \in OtherCodes) =>
        /\ spawns' = spawns /\ starting' = starting /\ nBinds' = nBinds
        /\ \A q \in Chans : prom'[q] = "backoff" => prom[q] = "backoff"
        /\ ~connected' /\ connecting' = 0

C12_OtherFailureRejects == []C12_State /\ [][C12_Step]_vars

\* Two callers shared an attempt that failed with EACCES, and the next
\* connect() opened a channel of its own.
C12_Witness ==
    \E c, d, e \in Calls :
        /\ c < d /\ d < e
        /\ call[c].binds = 1 /\ call[d].during = call[c].await
        /\ call[c].cerr = "EACCES" /\ call[d].cerr = "EACCES"
        /\ call[e].binds = 1

\* C13: a disconnect() call on a handle whose connected flag is set closes
\* the channel and leaves the handle Idle; on a handle whose flag is not set
\* it changes nothing of the handle or the channel.
C13_Step ==
    disc' # disc =>
        IF connected
        THEN /\ disc'.did = "closed"
             /\ ~connected' /\ connecting' = 0 /\ of' = 0
             /\ \A ch \in Chans : chan'[ch] # "open"
        ELSE UNCHANGED <<connected, connecting, of, chan, connL, respL, wire>>

C13_DisconnectLeavesIdle == [][C13_Step]_vars

\* The ConnectionState the flags of the handle stand for.
State(isConnected, attempt) ==
    IF isConnected THEN "Connected" ELSE IF attempt # 0 THEN "Connecting" ELSE "Idle"

\* C14: the ConnectionState changes only along the edges of the state
\* machine: Idle to Connecting, Connecting to Connected, Connecting to Idle
\* with the attempt rejected, and Connected to Idle, the latter only in a step
\* that closes the channel as disconnect() does.
C14_Step ==
    LET a == State(connected, connecting)
        b == State(connected', connecting')
    IN  a # b =>
          \/ a = "Idle" /\ b = "Connecting"
          \/ a = "Connecting" /\ b = "Connected"
          \/ /\ a = "Connecting" /\ b = "Idle"
             /\ \E p \in Chans : prom[p] = "pending" /\ prom'[p] = "rejected"
          \/ /\ a = "Connected" /\ b = "Idle"
             /\ of # 0 /\ of' = 0 /\ chan'[of] = "closed"

C14_OnlyStatedEdges == [][C14_Step]_vars

\* C15: a stopDaemon() call on a handle whose connected flag is set emits
\* 'stop_daemon'; it calls disconnect() only in the step in which the
\* 'stopped' confirmation is handled, that disconnect() leaves the handle
\* Idle, and the call resolves only afterwards.
C15_State ==
    /\ stopCall.was => stopCall.sent
    /\ stopCall.st \in {"closing", "resolved"} => stopCall.got

C15_Step ==
    /\ (stopCall.st # "closing" /\ stopCall'.st = "closing") =>
          /\ stopCall.conf # 0 /\ connected
          /\ disc'.did = "closed"
          /\ ~connected' /\ connecting' = 0 /\ of' = 0
    /\ (stopCall.st # "resolved" /\ stopCall'.st = "resolved") => stopCall.st = "closing"

C15_StopThenDisconnect == []C15_State /\ [][C15_Step]_vars

\* C16: unless the client has spawned a daemon again since the confirmation,
\* the name is not bound when stopDaemon() resolves, and an isDaemonRunning()
\* probe made after that does not resolve true.
C16_State ==
    (seen.afterStop /\ probe # "running") => probe # "true"

C16_Step ==
    (stopCall.st # "resolved" /\ stopCall'.st = "resolved" /\ spawns = stopCall.sp) =>
        daemon' = "down"

C16_StoppedMeansUnbound == []C16_State /\ [][C16_Step]_vars

\* The responses in flight that carry the requestId of call c.
InFlight(c) == {i \in 1..Len(wire) : wire[i].rid = c}

\* C17: for every atomic command the daemon has handled, one that names no
\* backend operation included, it has emitted exactly one response with the
\* command's requestId: a success carrying the backend's result when the
\* operation returned, a failure carrying the exception's message when it
\* threw; before the handler ends it has emitted none, and the handler emits
\* its response in the step in which the operation ends.
C17_State ==
    \A c \in Calls : call[c].kind \in AtomicActions =>
        /\ served[c].ran = "no" => (served[c].okOut = 0 /\ served[c].failOut = 0)
        /\ served[c].ran = "ok" => (served[c].okOut = 1 /\ served[c].failOut = 0)
        /\ served[c].ran = "threw" => (served[c].okOut = 0 /\ served[c].failOut = 1)
        /\ \A i \in InFlight(c) :
              /\ wire[i].ok = (served[c].ran = "ok")
              /\ wire[i].val = Json(served[c].ret)

C17_Step ==
    \A cmd \in inbox :
        (cmd.action \in AtomicActions /\ served'[cmd.rid].ran # served[cmd.rid].ran) =>
            /\ cmd \notin inbox'
            /\ served'[cmd.rid].okOut + served'[cmd.rid].failOut = 1
            /\ chan[cmd.ch] = "open" =>
                  /\ Len(wire') = Len(wire) + 1
                  /\ wire'[Len(wire')].rid = cmd.rid

C17_OneResponsePerCommand == []C17_State /\ [][C17_Step]_vars

\* A command naming no backend operation was answered by one failure
\* response, which reached the client and rejected the call.
C17_Witness ==
    \E c \in Calls :
        /\ call[c].kind = UnknownAction
        /\ served[c].ran = "threw" /\ served[c].failOut = 1 /\ served[c].okOut = 0
        /\ call[c].recvFail = 1 /\ call[c].st = "rejected"

\* C18: the step in which a backend operation throws ends the handler of that
\* command alone: one failure response with that command's requestId is
\* emitted, the other commands in flight stay in execution, the
\* subscriptions and the server stay as they are; and every command handled
\* after an exception has its own single response like any other.
C18_State ==
    \A c \in Calls : (call[c].kind \in AtomicActions /\ served[c].after > 0) =>
        /\ served[c].okOut + served[c].failOut = 1
        /\ served[c].okOut = 1 <=> served[c].ran = "ok"

C18_Step ==
    \A cmd \in inbox :
        (served[cmd.rid].ran = "no" /\ served'[cmd.rid].ran = "threw") =>
            /\ inbox' = inbox \ {cmd}
            /\ UNCHANGED <<subs, daemon, dying>>
            /\ \A c \in Calls :
                  /\ served'[c].failOut = served[c].failOut + (IF c = cmd.rid THEN 1 ELSE 0)
                  /\ served'[c].okOut = served[c].okOut

C18_FailureIsolated == []C18_State /\ [][C18_Step]_vars

\* One command threw while another was in flight; the other was handled
\* afterwards and its success response resolved its call.
C18_Witness ==
    \E c, d \in Calls :
        /\ served[c].ran = "threw" /\ served[c].failOut = 1
        /\ served[d].ran = "ok" /\ served[d].after = 1 /\ served[d].okOut = 1
        /\ call[d].st = "resolved" /\ call[d].recvOk = 1

\* C19: an atomic command that resolved did so with exactly the value the
\* backend operation returned, and one that was rejected by a failure
\* response carries the message of the exception the operation threw.
C19_ExactResult ==
    \A c \in Calls : call[c].kind \in AtomicActions =>
        /\ call[c].st = "resolved" => call[c].val = served[c].ret
        /\ (call[c].st = "rejected" /\ call[c].err.kind = "backend") =>
              (served[c].ran = "threw" /\ call[c].msg = served[c].ret)

\* C20: for a streamMessages request the daemon has emitted as many success
\* responses with the request's requestId as the backend has delivered stream
\* events, one in the step of each event, and no failure response; the step in
\* which the registering call returns emits nothing.
C20_State ==
    \A c \in Calls : call[c].kind = StreamAction =>
        /\ served[c].okOut = events[c]
        /\ served[c].failOut = 0
        /\ \A i \in InFlight(c) : wire[i].ok /\ wire[i].val = "message"

C20_Step ==
    \A c \in Calls : call[c].kind = StreamAction =>
        /\ events'[c] # events[c] =>
              /\ served'[c].okOut = served[c].okOut + 1
              /\ \E s \in subs : s.rid = c /\
                    (chan[s.ch] = "open" =>
                        /\ Len(wire') = Len(wire) + 1
                        /\ wire'[Len(wire')].rid = c)
        /\ served'[c].ran # served[c].ran =>
              /\ wire' = wire
              /\ served'[c].okOut = served[c].okOut
              /\ served'[c].failOut = served[c].failOut

C20_OneResponsePerEvent == []C20_State /\ [][C20_Step]_vars

\* A subscription delivered two events: two success responses were emitted
\* for it and both reached the caller's callback.
C20_Witness ==
    \E c \in Calls :
        /\ call[c].kind = StreamAction /\ served[c].ran = "ok"
        /\ events[c] = 2 /\ served[c].okOut = 2 /\ served[c].failOut = 0
        /\ call[c].cb = 2

\* The place of the first x in the sequence q, 0 if there is none.
Pos(q, x) ==
    IF \E i \in 1..Len(q) : q[i] = x
    THEN CHOOSE i \in 1..Len(q) : q[i] = x /\ \A j \in 1..(i - 1) : q[j] # x
    ELSE 0

\* C21: the process that handles 'stop_daemon' stops its server first, emits
\* 'stopped' second and exits last: it has stopped serving when it confirms,
\* it is still running in the step in which it confirms, and it exits only
\* after the confirmation was emitted.
C21_State ==
    LET log == dying.log IN
    /\ Pos(log, "stopped") > 0 =>
          (Pos(log, "server.stop") > 0 /\ Pos(log, "server.stop") < Pos(log, "stopped"))
    /\ Pos(log, "exit") > 0 =>
          (Pos(log, "stopped") > 0 /\ Pos(log, "stopped") < Pos(log, "exit"))
    /\ dying.on => Pos(log, "exit") = 0

C21_Step ==
    /\ (stopCall.conf = 0 /\ stopCall'.conf # 0) =>
          /\ owner[stopCall'.conf] \notin servers'
          /\ dying'.on
          /\ chan' = chan
    /\ (Pos(dying.log, "exit") = 0 /\ Pos(dying'.log, "exit") > 0) =>
          /\ dying.on /\ Pos(dying.log, "stopped") > 0
          /\ stopCall.req = 0

C21_StopConfirmExit == []C21_State /\ [][C21_Step]_vars

\* The daemon has exited after a shutdown whose confirmation the client
\* handled before the exit.
C21_Witness ==
    /\ dying.log = <<"server.stop", "stopped", "exit">>
    /\ stopCall.got /\ stopCall.st = "resolved"

\* C22: when the 'stop_daemon' handler emits 'stopped' it has stopped the
\* Matrix client that start() created.
C22_BackendStopped ==
    Pos(dying.log, "stopped") > 0 =>
        (Pos(dying.log, "stopClient") > 0 /\
         Pos(dying.log, "stopClient") < Pos(dying.log, "stopped"))

\* C23: at most one process serves the name at any time, and a process that
\* starts while the name is bound neither becomes a server nor changes what
\* the name leads to.
C23_State == Cardinality(servers) <= 1

C23_Step ==
    (starting' < starting /\ daemon = "bound") =>
        /\ servers' = servers /\ procs' = procs /\ daemon' = daemon
        /\ UNCHANGED <<chan, inbox, subs, wire, owner>>

C23_SingleDaemon == []C23_State /\ [][C23_Step]_vars

\* C24: in direct mode every execute() call that went the direct way uses the
\* same Matrix client and MatrixCommands pair, the one pair whose
\* construction succeeded, also when calls are made while the construction
\* is under way.
C24_OnePair ==
    \A e, f \in Execs :
        (exec[e].st = "done" /\ exec[e].route = "direct" /\
         exec[f].st = "done" /\ exec[f].route = "direct") =>
            exec[e].pair = exec[f].pair

\* C25: every execute() call is routed by the value config.useDaemon has when
\* the call is made, whatever it was before and whatever an earlier call did:
\* to the daemonClient when it is set, to the direct pair when it is not.
C25_State ==
    \A e \in Execs : exec[e].st # "none" =>
        exec[e].route = (IF exec[e].pref THEN "daemon" ELSE "direct")

C25_Step ==
    \A e \in Execs : (exec[e].st = "none" /\ exec'[e].st # "none") =>
        /\ exec'[e].pref = proxy.useDaemon
        /\ exec'[e].route = (IF proxy.useDaemon THEN "daemon" ELSE "direct")
        /\ exec'[e].route = "daemon" => (exec'[e].st = "done" /\ proxy' = proxy)

C25_LivePreference == []C25_State /\ [][C25_Step]_vars

\* A call was routed to the daemon, the preference was switched off, and the
\* next call went the direct way; it was switched on again and the call after
\* that went to the daemon.
C25_Witness ==
    /\ exec[1].route = "daemon" /\ exec[1].pref
    /\ exec[2].route = "direct" /\ exec[2].st = "done" /\ ~exec[2].pref
    /\ exec[3].route = "daemon" /\ exec[3].pref

\* C26: an execute() call made after the `mode` property was assigned is
\* routed by the assigned value: to the daemonClient after 'daemon', the direct
\* way after any other value.
C26_SetterDecides ==
    \A e \in Execs : (exec[e].st # "none" /\ exec[e].assigned # "none") =>
        (exec[e].route = "daemon" <=> exec[e].assigned = "daemon")

\* C27: a stopDaemon() call made while the handle is not Connected rejects
\* with 'Not connected to daemon.', emits no 'stop_daemon', registers no
\* listener, arms no timer and changes nothing of the handle or the daemon.
C27_State ==
    (stopCall.st # "none" /\ ~stopCall.was) =>
        /\ stopCall.st = "rejected" /\ stopCall.err = "Not connected to daemon."
        /\ ~stopCall.sent /\ stopCall.req = 0 /\ stopCall.conf = 0
        /\ stopCall.on = 0 /\ stopCall.timer = "none"
        /\ dying.log = <<>>

C27_Step ==
    (stopCall.st = "none" /\ stopCall'.st # "none" /\ ~connected) =>
        /\ stopCall'.st = "rejected" /\ ~stopCall'.sent /\ stopCall'.req = 0
        /\ UNCHANGED <<connected, connecting, of, chan, daemon, servers, dying>>

C27_StopNeedsConnection == []C27_State /\ [][C27_Step]_vars

\* stopDaemon() was refused; the handle connected afterwards and the daemon
\* serves on.
C27_Witness ==
    /\ stopCall.st = "rejected" /\ ~stopCall.was
    /\ connected /\ daemon = "bound" /\ servers # {}

\* C28: when the 10 s timer of stopDaemon() fires before a confirmation was
\* handled, the call rejects with the timeout error in that step, which calls no
\* disconnect() and leaves the handle as it is; a call rejected that way stays
\* rejected, and a confirmation that arrives later is not handled.
C28_Step ==
    /\ (stopCall.timer = "armed" /\ stopCall'.timer # "armed" /\ stopCall.st = "waiting") =>
          /\ stopCall'.st = "rejected"
          /\ stopCall'.err = "Daemon stop request timed out"
          /\ UNCHANGED <<connected, connecting, of, chan, disc>>
    /\ (stopCall.st = "rejected" /\ stopCall.err = "Daemon stop request timed out") =>
          /\ stopCall'.st = stopCall.st /\ stopCall'.err = stopCall.err
          /\ stopCall'.got = stopCall.got

C28_StopTimeout == [][C28_Step]_vars

\* C29: when the listing fails, listRooms of the CLI throws to its caller.
C29_ListRoomsThrows ==
    (cli.st = "done" /\ ~cli.out.ok) => cli.ends = "threw"

\* Sorted by time, oldest first.
Ascending(q) == \A i, j \in 1..Len(q) : i < j => q[i].ts <= q[j].ts

\* Every entry is an m.room.message with startTime <= ts <= endTime.
InRange(q, g) ==
    \A i \in 1..Len(q) :
        /\ q[i].type = "m.room.message"
        /\ g.startTime <= q[i].ts /\ q[i].ts <= g.endTime

\* C30: what getMessages() returns has at most `limit` entries, each an
\* m.room.message with startDate <= timestamp <= endDate; for direction 'b'
\* it is in ascending time order; for limit 0 it is empty.
C30_MessagesInRange ==
    gm.st = "returned" =>
        /\ Len(gm.got) <= gm.limit
        /\ InRange(gm.got, gm)
        /\ gm.direction = "b" => Ascending(gm.got)
        /\ gm.limit = 0 => gm.got = <<>>

\* C31: a daemon process binds the name only after its backend connection is
\* established and its CommandExecutor is constructed, so every process that
\* has ever served the name (and so every process that dispatches a command)
\* has its executor set; a process whose backend initialisation fails leaves
\* the name, the servers and the bound processes as they were and is never
\* counted among the processes that bound.
C31_State ==
    /\ \A pid \in 1..procs : executor[pid] = "set"
    /\ \A ch \in Chans : owner[ch] # 0 => executor[owner[ch]] = "set"
    /\ procs + starting + initFailed <= spawns + 1

C31_Step ==
    /\ procs' > procs => (ready > 0 /\ ready' = ready - 1 /\ inits' = inits)
    /\ initFailed' > initFailed =>
          (starting' = starting - 1 /\ ready' = ready /\ UNCHANGED <<daemon, servers, procs>>)

C31_BindAfterBackend == []C31_State /\ [][C31_Step]_vars

\* One process failed in _createClient(), a later one bound the name with its
\* executor set, and the handle is connected to it.
C31_Witness ==
    /\ initFailed >= 1 /\ daemon = "bound" /\ connected /\ of # 0
    /\ owner[of] \in servers /\ executor[owner[of]] = "set"

\* C32: a failure response for a streaming command removes its listener and
\* rejects the promise if it is still pending; a failure after the first
\* success leaves the resolved promise as it is; once the listener is removed,
\* later responses with the same requestId invoke the callback no more and
\* change nothing of the call.
C32_Step ==
    \A c \in Calls :
        (/\ call[c].kind = StreamAction /\ wire # <<>>
         /\ wire' = Tail(wire) /\ Head(wire).rid = c) =>
            LET r == Head(wire) IN
            /\ (~r.ok /\ c \in respL) =>
                  /\ c \notin respL'
                  /\ call'[c].cb = call[c].cb
                  /\ IF call[c].st = "pending"
                     THEN call'[c].st = "rejected" /\ call'[c].msg = r.val
                     ELSE /\ call'[c].st = call[c].st /\ call'[c].val = call[c].val
                          /\ call'[c].settles = call[c].settles
            /\ c \notin respL =>
                  /\ c \notin respL'
                  /\ call'[c].cb = call[c].cb
                  /\ call'[c].st = call[c].st /\ call'[c].settles = call[c].settles

C32_StreamFailure == [][C32_Step]_vars

\* One streaming call was rejected by a failure that came first; another was
\* resolved by a success, then received a failure, then a success that
\* invoked no callback.
C32_Witness ==
    \E c, d \in Calls :
        /\ call[c].kind = StreamAction /\ call[c].st = "rejected"
        /\ call[c].recvFail = 1 /\ call[c].cb = 0 /\ c \notin respL
        /\ call[d].kind = StreamAction /\ call[d].st = "resolved"
        /\ call[d].recvFail = 1 /\ call[d].recvOk = 2 /\ call[d].cb = 1
        /\ d \notin respL

\* C33: no timer is ever armed for a streaming command, no streaming call is
\* rejected with a timeout error, and a pending streaming call that has
\* received no response stays pending in every step in which no response
\* with its requestId reaches the client.
C33_State ==
    \A c \in Calls : call[c].kind = StreamAction =>
        timer[c] = "none" /\ call[c].err.kind # "timeout"

C33_Step ==
    \A c \in Calls :
        (/\ call[c].kind = StreamAction /\ call[c].st = "pending"
         /\ call[c].recvOk + call[c].recvFail = 0
         /\ call'[c].st # "pending") =>
            call'[c].recvOk + call'[c].recvFail = 1

C33_StreamNoTimeout == []C33_State /\ [][C33_Step]_vars

\* A streaming call that has received nothing is pending while the timer of
\* an atomic call made no earlier than it has fired and rejected that call.
C33_Witness ==
    \E c, d \in Calls :
        /\ call[c].kind = StreamAction /\ call[c].st = "pending"
        /\ call[c].recvOk + call[c].recvFail = 0 /\ c \in respL
        /\ c < d /\ call[d].kind \in AtomicActions
        /\ timer[d] = "fired" /\ call[d].err.kind = "timeout"

\* C34: a step of isDaemonRunning() (the call itself, or the event that ends
\* the probe, whatever it is) spawns no daemon process, puts no command in
\* front of the daemon and sends no shutdown request.
C34_Step ==
    probe' # probe =>
        /\ UNCHANGED <<spawns, starting, inbox>>
        /\ stopCall'.sent = stopCall.sent /\ stopCall'.req = stopCall.req

C34_ProbeOnlyProbes == [][C34_Step]_vars

\* A probe found no daemon and resolved false; no process was ever spawned
\* and no shutdown request sent.
C34_Witness ==
    /\ probe = "false" /\ seen.ev = "ENOENT" /\ daemon = "down"
    /\ spawns = 0 /\ starting = 0 /\ ~stopCall.sent

\* ------------------------------------------------- the `daemon stop` command

\* `const isRunning = await daemonClient.isDaemonRunning();` on a handle that
\* nothing has used.
CliStopProbe ==
    /\ probe = "idle" /\ nCalls = 0 /\ stopCall.st = "none"
    /\ isDaemonRunning

\* The probe resolved true (`if (!isRunning) { ...; return; }` not taken):
\* `await daemonClient.connect();`
CliStopConnect ==
    /\ probe = "true" /\ nCalls = 0
    /\ connect

\* connect() resolved: `await daemonClient.stopDaemon();`
CliStopRequest ==
    /\ nCalls = 1 /\ call[1].conn = "ok"
    /\ stopDaemon

\* C35: the `daemon stop` command never causes a daemon process to be
\* spawned; when its probe reports no daemon, it neither connects nor sends
\* a shutdown request.
C35_StopNeverSpawns ==
    /\ spawns = 0
    /\ probe = "false" => (nCalls = 0 /\ stopCall.st = "none")

\* C36: a timer that fires after its operation has settled raises no error:
\* not the 10 s timer of an atomic command that a response has settled, and
\* not the 10 s timer of a stopDaemon() whose confirmation was handled.
C36_LateTimerHarmless ==
    /\ \A c \in Calls :
          (/\ call[c].kind \in AtomicActions /\ call[c].st \in {"resolved", "rejected"}
           /\ call[c].err.kind \notin {"timeout", "TypeError"}) =>
              timer[c] # "threw"
    /\ stopCall.got => stopCall.timer # "threw"

\* C37: with several clients connected to one daemon, every envelope the
\* daemon emits (the response of a command, a stream event, the shutdown
\* confirmation) is on the connection its request came on, and no other
\* connection receives it.
C37_OnlyTheRequester ==
    \A cl \in Clients : \A i \in 1..Len(hub.out[cl]) : hub.out[cl][i].ch = cl

\* Two clients are connected; each has been sent an envelope, among them a
\* stream event and a shutdown confirmation.
C37_Witness ==
    /\ hub.open = Clients
    /\ \A cl \in Clients : hub.out[cl] # <<>>
    /\ \E cl \in Clients : \E i \in 1..Len(hub.out[cl]) : hub.out[cl][i].val = "stopped"
    /\ \E cl \in Clients : \E i \in 1..Len(hub.out[cl]) : hub.out[cl][i].val = "message"

\* C38: the daemon never removes a stream subscription: in every step the
\* subscriptions on its backend stay, also when the client of one of them
\* closes its connection, and a room event for a subscription whose
\* connection has closed is still emitted.
C38_State ==
    \A s \in hub.subs : (s.ch \notin hub.open /\ Roomy) => ENABLED onRoomEvent(s)

C38_SubscriptionStays == []C38_State /\ [][hub.subs \subseteq hub'.subs]_vars

\* The client of a subscription has closed its connection; the subscription
\* is still registered and an event was emitted for it since.
C38_Witness ==
    \E s \in hub.subs :
        /\ s.ch \notin hub.open
        /\ \E i \in 1..Len(hub.lost) :
              hub.lost[i].rid = s.rid /\ hub.lost[i].val = "message"

\* C39: the modes do not leak into each other.  The handle is used only on
\* behalf of execute() calls made in daemon mode: without one it has made no
\* connection attempt and spawned nothing; a backend connection is constructed
\* in the process only on behalf of execute() calls made in direct mode, and a
\* call made in daemon mode constructs none.
C39_ModesApart ==
    LET InDaemon == {e \in Execs : exec[e].st # "none" /\ exec[e].pref}
        InDirect == {e \in Execs : exec[e].st # "none" /\ ~exec[e].pref}
    IN  /\ nCalls <= Cardinality(InDaemon)
        /\ InDaemon = {} => (nBinds = 0 /\ spawns = 0 /\ ~connected /\ connecting = 0)
        /\ proxy.made <= Cardinality(InDirect)
        /\ \A e \in InDaemon : exec[e].mine = 0 /\ exec[e].pair = 0

\* Calls were made in both modes: the one in direct mode constructed the
\* backend connection while the handle was untouched, the one in daemon mode
\* then reached the daemon through the handle, which had to spawn it.
C39_Witness ==
    /\ exec[1].st = "done" /\ ~exec[1].pref /\ exec[1].pair = 1
    /\ exec[2].st = "done" /\ exec[2].pref
    /\ proxy.made = 1 /\ nCalls = 1 /\ call[1].st = "pending"
    /\ connected /\ spawns >= 1

\* C40: a command sent in daemon mode settles as the same backend operation
\* settles in direct mode, where execute() returns the promise of the operation
\* itself: a call whose operation has ended in the daemon is, once settled,
\* resolved with the value the operation returned or rejected with the message
\* of what it threw.
C40_SameOutcome ==
    \A c \in Calls : (call[c].kind \in Actions /\ served[c].ran # "no") =>
        /\ call[c].st = "resolved" => (served[c].ran = "ok" /\ call[c].val = served[c].ret)
        /\ call[c].st = "rejected" => (served[c].ran = "threw" /\ call[c].msg = served[c].ret)

Next ==
    \/ connect
    \/ sendCommand
    \/ \E ch \in Chans : onConnect(ch)
    \/ \E ch \in Chans, code \in ErrorCodes : onError(ch, code)
    \/ \E p \in Chans : retry(p)
    \/ daemonStarts
    \/ startAborts
    \/ backendReady
    \/ backendFails
    \/ daemonBinds
    \/ daemonExits
    \/ daemonTakesOver
    \/ \E cmd \in inbox : \E out \in Outcomes(cmd.action) : respond(cmd, out)
    \/ \E cmd \in inbox : subscribe(cmd)
    \/ \E s \in subs : streamEvent(s)
    \/ \E r \in Envelopes : arrives(r)
    \/ deliver
    \/ \E c \in Calls : timeout(c)
    \/ disconnect
    \/ isDaemonRunning
    \/ \E ev \in ProbeEvents : probeEnds(ev)
    \/ stopDaemon
    \/ onStopDaemon
    \/ \E pid \in Pids : stopRequested(pid)
    \/ processExit
    \/ onStopped
    \/ stopGrace
    \/ stopTimeout

Spec == Init /\ [][Next]_vars

\* The connection lifecycle alone: connect() callers, the sockets' events,
\* the backoff timers and the spawned daemon processes; disconnect() is
\* called on a handle that holds a channel.
NextConnect ==
    \/ connect
    \/ \E ch \in Chans : onConnect(ch)
    \/ \E ch \in Chans, code \in ErrorCodes : onError(ch, code)
    \/ \E p \in Chans : retry(p)
    \/ daemonStarts
    \/ startAborts
    \/ backendReady
    \/ backendFails
    \/ daemonBinds
    \/ daemonExits
    \/ daemonTakesOver
    \/ Closes /\ disconnect

SpecConnect == Init /\ [][NextConnect]_vars

\* Commands against a daemon that is running from the start; disconnect() is
\* called on a handle that holds a channel.
NextCommand ==
    \/ sendCommand
    \/ \E ch \in Chans : onConnect(ch)
    \/ \E ch \in Chans, code \in OtherCodes : onError(ch, code)
    \/ \E cmd \in inbox : \E out \in Outcomes(cmd.action) : respond(cmd, out)
    \/ \E cmd \in inbox : subscribe(cmd)
    \/ \E s \in subs : streamEvent(s)
    \/ deliver
    \/ \E c \in Calls : timeout(c)
    \/ Closes /\ disconnect
    \/ isDaemonRunning
    \/ \E ev \in ProbeEvents : probeEnds(ev)

InitCommand == Init /\ daemon = "bound"

SpecCommand == InitCommand /\ [][NextCommand]_vars

\* Commands on a channel that can carry any response envelope.
NextStream ==
    \/ sendCommand
    \/ \E ch \in Chans : onConnect(ch)
    \/ \E cmd \in inbox : subscribe(cmd)
    \/ \E s \in subs : streamEvent(s)
    \/ \E r \in Envelopes : arrives(r)
    \/ deliver

SpecStream == InitCommand /\ [][NextStream]_vars

\* The life of the handle and of the daemon: connect(), disconnect(),
\* isDaemonRunning() and stopDaemon() in any order, with the spawned processes.
NextLife ==
    \/ connect
    \/ \E ch \in Chans : onConnect(ch)
    \/ \E ch \in Chans, code \in ErrorCodes : onError(ch, code)
    \/ \E p \in Chans : retry(p)
    \/ daemonStarts
    \/ startAborts
    \/ backendReady
    \/ backendFails
    \/ daemonBinds
    \/ daemonExits
    \/ daemonTakesOver
    \/ disconnect
    \/ isDaemonRunning
    \/ \E ev \in ProbeEvents : probeEnds(ev)
    \/ stopDaemon
    \/ onStopDaemon
    \/ processExit
    \/ onStopped
    \/ stopGrace
    \/ stopTimeout

SpecLife == Init /\ [][NextLife]_vars

\* One `daemon stop` command on a handle of its own, with a daemon that other
\* clients can stop as well.
NextStop ==
    \/ CliStopProbe
    \/ \E ev \in ProbeEvents : probeEnds(ev)
    \/ CliStopConnect
    \/ \E ch \in Chans : onConnect(ch)
    \/ \E ch \in Chans, code \in ErrorCodes : onError(ch, code)
    \/ \E p \in Chans : retry(p)
    \/ CliStopRequest
    \/ onStopDaemon
    \/ \E pid \in Pids : stopRequested(pid)
    \/ processExit
    \/ onStopped
    \/ stopGrace
    \/ stopTimeout
    \/ daemonStarts
    \/ startAborts
    \/ backendReady
    \/ backendFails
    \/ daemonBinds
    \/ daemonExits
    \/ daemonTakesOver

SpecStop == Init /\ [][NextStop]_vars

\* One daemon and the clients connected to it.
NextServe ==
    \/ \E cl \in Clients : accept(cl)
    \/ \E cl \in Clients, a \in Actions : onCommand(cl, a)
    \/ \E cmd \in hub.reqs : \E out \in Outcomes(cmd.action) : answer(cmd, out)
    \/ \E s \in hub.subs : onRoomEvent(s)
    \/ \E cl \in Clients : onStopRequest(cl)
    \/ \E cl \in Clients : socketCloses(cl)

SpecServe == InitCommand /\ [][NextServe]_vars

\* The application's use of the MatrixClientProxy and of the CLI, with either
\* preference in the configuration at the start.
NextApp ==
    \/ execute
    \/ \E e \in Execs : created(e)
    \/ \E e \in Execs : createFails(e)
    \/ \E state \in BOOLEAN : setDaemon(state)
    \/ \E value \in {"daemon", "direct"} : setMode(value)
    \/ \E out \in ListOutcomes : roomList(out)

InitProxy == InitHandle /\ daemon = "down" /\ \E u \in BOOLEAN : InitApp(u)

SpecApp == InitProxy /\ [][NextApp]_vars

\* execute() calls in either mode, with the handle and the daemon behind the
\* daemon mode.
NextModes ==
    \/ execute
    \/ \E e \in Execs : created(e)
    \/ \E e \in Execs : createFails(e)
    \/ \E state \in BOOLEAN : setDaemon(state)
    \/ daemonExecute
    \/ \E ch \in Chans : onConnect(ch)
    \/ \E ch \in Chans, code \in ErrorCodes : onError(ch, code)
    \/ \E p \in Chans : retry(p)
    \/ daemonStarts
    \/ backendReady
    \/ daemonBinds

SpecModes == InitProxy /\ [][NextModes]_vars

\* One getMessages() call with any arguments against any server.
NextMessages ==
    \/ \E limit \in 0..MaxLimit, startDate, endDate \in 1..MaxTs,
          direction \in {"b", "f"}, token \in BOOLEAN :
              getMessages(limit, startDate, endDate, direction, token)
    \/ \E chunk \in Chunks, end \in BOOLEAN : fetchPage(chunk, end)
    \/ fetchFails
    \/ returnMessages

InitMessages == Init /\ daemon = "down"

SpecMessages == InitMessages /\ [][NextMessages]_vars
====
